---- MODULE Spec2Model ----
(***************************************************************************)
(* n8n tool adapter (src/nodejs/src/tools/n8n.js).                         *)
(*                                                                         *)
(* One tool call at a time is followed from its invocation to its return.  *)
(* pc is the position in the handler, awaiting the collaborator the        *)
(* handler is suspended on (credential store, Request Executor, axios).    *)
(* Every value of the program is a tagged JavaScript value, so that null,  *)
(* undefined, the empty string and wrongly shaped remote answers are       *)
(* distinct and behave as they do in the source.                           *)
(***************************************************************************)
EXTENDS Integers, Sequences, FiniteSets, TLC

----------------------------------------------------------------------------
(* JavaScript values *)

Null == [t |-> "null"]
Undefined == [t |-> "undefined"]
Str(s) == [t |-> "string", v |-> s]
Num(n) == [t |-> "number", v |-> n]
Bool(b) == [t |-> "boolean", v |-> b]
Arr(s) == [t |-> "array", v |-> s]
Obj(r) == [t |-> "object", v |-> r]

\* the value a call that raised an exception yields to its caller
Throw == [t |-> "throw"]

\* a returned text: the source's template literal, with the interpolated
\* values the properties speak about
Text(s, vals) == [t |-> "string", v |-> s, vals |-> vals]

Nullish(x) == x.t \in {"null", "undefined"}

\* !!x
Truthy(x) ==
    CASE x.t \in {"null", "undefined"} -> FALSE
      [] x.t = "string" -> x.v # ""
      [] x.t = "number" -> x.v # 0
      [] x.t = "boolean" -> x.v
      [] x.t = "nan" -> FALSE
      [] OTHER -> TRUE

\* x.f for an x that is neither null nor undefined
Get(x, f) == IF x.t = "object" /\ f \in DOMAIN x.v THEN x.v[f] ELSE Undefined

\* x?.f
Opt(x, f) == IF Nullish(x) THEN Undefined ELSE Get(x, f)

\* a || b
Or(a, b) == IF Truthy(a) THEN a ELSE b

\* NaN, a number that equals nothing
NaN == [t |-> "nan"]

\* typeof x === 'number'
IsNumber(x) == x.t \in {"number", "nan"}

\* String(x)
String(x) ==
    CASE x.t = "string" -> Str(x.v)
      [] x.t = "number" -> Str(ToString(x.v))
      [] x.t = "boolean" -> Str(IF x.v THEN "true" ELSE "false")
      [] x.t = "nan" -> Str("NaN")
      [] x.t = "array" -> Str("<array>")
      [] x.t = "object" -> Str("[object Object]")
      [] OTHER -> Str(x.t)

\* Number(x), for the numerals the inputs use
Number(x) ==
    CASE x.t = "number" -> x
      [] x.t = "string" -> IF x.v \in {"", " "} THEN Num(0)
                           ELSE IF x.v = "1" THEN Num(1)
                           ELSE IF x.v = "2" THEN Num(2)
                           ELSE NaN
      [] x.t = "boolean" -> IF x.v THEN Num(1) ELSE Num(0)
      [] x.t = "null" -> Num(0)
      [] OTHER -> NaN

\* Boolean(x)
Boolean(x) == Bool(Truthy(x))

\* x.trim(), for the strings the inputs use
Trim(x) == IF x.v = " " THEN Str("") ELSE IF x.v = " wf " THEN Str("wf") ELSE Str(x.v)

\* Array.isArray(x)
IsArray(x) == x.t = "array"

\* x.length === 0
LengthIsZero(x) == (x.t = "array" /\ x.v = <<>>) \/ x = Str("")

\* the elements a for...of over x visits; a string yields its characters
Elements(x) == IF x.t = "array" THEN {x.v[i] : i \in 1..Len(x.v)} ELSE {}

\* for (const item of x) raises a TypeError when x is not iterable
Iterable(x) == x.t \in {"array", "string"}

----------------------------------------------------------------------------
(* Bounds *)

\* longest node list of a fetched workflow
MaxNodes == 1

----------------------------------------------------------------------------
(* Configuration *)

DEFAULT_N8N_API_BASE == "https://api.n8n.io/v1"

\* N8N.API_BASE_URL of ../config/config, the host used when the user has
\* no base URL of their own
N8N_API_BASE_URL == "N8N.API_BASE_URL"

CATALOG == "https://api.n8n.io/api/v1"

UserBaseUrl == "https://n8n.example.com/api/v1"

\* `${url.protocol}//${url.host}` of new URL(apiBaseUrl)
Origin(apiBaseUrl) ==
    IF apiBaseUrl = UserBaseUrl THEN "https://n8n.example.com" ELSE apiBaseUrl

----------------------------------------------------------------------------
(* Credential store: the user collection read by User.findById *)

N8NRecord(key, base) ==
    Obj([mcpdata |-> Obj([N8N |-> Obj([api_key |-> key, api_base_url |-> base])])])

User ==
    [u1 |-> N8NRecord(Str("enc"), Str(UserBaseUrl)),
     u2 |-> N8NRecord(Str("enc"), Undefined),
     u3 |-> Obj([email |-> Str("a@b.c")]),
     u4 |-> Obj([mcpdata |-> Obj([SLACK |-> Obj([api_key |-> Str("enc")])])]),
     u5 |-> Obj([mcpdata |-> Obj([N8N |-> Obj([api_base_url |-> Str(UserBaseUrl)])])]),
     u6 |-> N8NRecord(Str(""), Undefined)]

\* user identifiers a caller may pass: none, empty, stored, unknown
UserIds == {Null, Undefined, Str(""), Str("u1"), Str("u2"), Str("u3"),
            Str("u4"), Str("u5"), Str("u6"), Str("u7")}

\* what findById resolves to when the store answers
findById(userId) ==
    IF userId.t = "string" /\ userId.v \in DOMAIN User THEN User[userId.v] ELSE Null

\* outcomes of decryptedData: the key, an empty string, or an exception
DecryptOutcomes == {Str("key"), Str(""), Throw}

\* getN8nConfig mutated: an exception of the decrypt primitive is propagated
GetN8nConfigPropagates(user, storeThrows, decrypted) ==
    IF storeThrows THEN Null
    ELSE IF \/ ~Truthy(user)
            \/ ~Truthy(Get(user, "mcpdata"))
            \/ ~Truthy(Get(Get(user, "mcpdata"), "N8N"))
            \/ ~Truthy(Get(Get(Get(user, "mcpdata"), "N8N"), "api_key"))
    THEN Null
    ELSE IF decrypted = Throw THEN Throw
    ELSE Obj([apiKey |-> decrypted,
              apiBaseUrl |-> Or(Get(Get(Get(user, "mcpdata"), "N8N"), "api_base_url"), Null)])

\* the value getN8nConfig resolves to, from the store's answer (user, or an
\* exception) and the outcome of decryptedData
GetN8nConfigResult(user, storeThrows, decrypted) ==
    IF storeThrows THEN Null
    ELSE IF \/ ~Truthy(user)
            \/ ~Truthy(Get(user, "mcpdata"))
            \/ ~Truthy(Get(Get(user, "mcpdata"), "N8N"))
            \/ ~Truthy(Get(Get(Get(user, "mcpdata"), "N8N"), "api_key"))
    THEN Null
    ELSE IF decrypted = Throw THEN Null
    ELSE Obj([apiKey |-> decrypted,
              apiBaseUrl |-> Or(Get(Get(Get(user, "mcpdata"), "N8N"), "api_base_url"), Null)])

----------------------------------------------------------------------------
(* HTTP *)

\* what the remote end does with one call
NoResponse == {[kind |-> "network", status |-> 0, data |-> Undefined],
               [kind |-> "timeout", status |-> 0, data |-> Undefined]}

Responses(statuses, bodies) ==
    {[kind |-> "response", status |-> s, data |-> b] : s \in statuses, b \in bodies}

\* bodies of error answers
ErrorBodies ==
    {Str(""),
     Obj([message |-> Str("not found")]),
     Obj([message |-> Str("Workflow could not be started")]),
     Obj([message |-> Num(500)])}

Failures == NoResponse \cup Responses({404, 500}, ErrorBodies)

\* axios rejects when there is no response or validateStatus refuses it
\* (default: 2xx only)
AxiosRejects(o) == o.kind # "response" \/ o.status < 200 \/ o.status >= 300

Verbs == {"GET", "POST", "PUT", "DELETE", "PATCH"}

\* the call makeN8nRequest issues
Request(endpoint, apiKey, params, jsonData, method, apiBaseUrl) ==
    [url |-> <<IF Truthy(apiBaseUrl) THEN apiBaseUrl.v ELSE DEFAULT_N8N_API_BASE>> \o endpoint,
     method |-> method,
     apiKey |-> apiKey,
     params |-> IF method = "DELETE" THEN Null ELSE params,
     body |-> IF method \in {"POST", "PUT", "PATCH"} THEN jsonData ELSE Null]

\* the value makeN8nRequest resolves to; with a verb it does not know,
\* response stays undefined and response.data raises inside the try
MakeN8nRequestResult(method, o) ==
    IF method \notin Verbs THEN Null
    ELSE IF AxiosRejects(o) THEN Null
    ELSE o.data

----------------------------------------------------------------------------
(* Texts *)

UserIdRequired ==
    Text("Error: User ID is required. Please provide user authentication.", <<>>)

ApiKeyNotFound ==
    Text("Error: n8n API key not found. Please configure your n8n integration in your profile settings.", <<>>)

NoResult == [t |-> "none"]

----------------------------------------------------------------------------
(* State *)

VARIABLES
    pc,          \* position in the handler: "idle", a label, "done", "thrown"
    awaiting,    \* the collaborator the handler is suspended on
    op,          \* the exported function that was called
    args,        \* its arguments
    config,      \* const config = await getN8nConfig(userId)
    data,        \* the value of the last awaited makeN8nRequest
    response,    \* the outcome of the last direct axios call
    local,       \* the handler's other local variables
    calls,       \* HTTP calls issued by this invocation, in order
    lookups,     \* User.findById calls made by this invocation
    ext,         \* what the collaborators did last (store, decrypt, remote)
    result       \* the value returned to the caller

vars == <<pc, awaiting, op, args, config, data, response, local, calls, lookups, ext, result>>

NoOutcome == [kind |-> "none", status |-> 0, data |-> Undefined]

NoExt == [findById |-> "not called", decryptedData |-> "not called",
          via |-> "none", http |-> NoOutcome]

NoArgs == [userId |-> Undefined]

NoLocal == [none |-> Undefined]

Init ==
    /\ pc = "idle"
    /\ awaiting = "none"
    /\ op = "none"
    /\ args = NoArgs
    /\ config = Undefined
    /\ data = Undefined
    /\ response = Undefined
    /\ local = NoLocal
    /\ calls = <<>>
    /\ lookups = 0
    /\ ext = NoExt
    /\ result = NoResult

----------------------------------------------------------------------------
(* Control *)

\* return v
Return(v) ==
    /\ pc' = "done"
    /\ awaiting' = "none"
    /\ result' = v

\* an exception leaves the async function: the promise rejects
Raise ==
    /\ pc' = "thrown"
    /\ awaiting' = "none"
    /\ result' = Throw

Finish(v) == IF v = Throw THEN Raise ELSE Return(v)

\* the user-id guard mutated: only null and undefined count as missing
UserIdMissingNullOnly(userId) == Nullish(userId)

\* if (!userId)
UserIdMissing(userId) == ~Truthy(userId)

\* the credential guard mutated: an empty decrypted key is accepted
ConfigMissingKeyUnchecked(cfg) == ~Truthy(cfg)

\* if (!config || !config.apiKey)
ConfigMissing(cfg) == ~Truthy(cfg) \/ ~Truthy(Get(cfg, "apiKey"))

\* entry of an operation that takes a user id: the guard, then the
\* credential lookup is awaited
Call(o, a) ==
    /\ pc = "idle"
    /\ op' = o
    /\ args' = a
    /\ IF UserIdMissing(a.userId)
       THEN Return(UserIdRequired)
       ELSE /\ pc' = "config"
            /\ awaiting' = "getN8nConfig"
            /\ UNCHANGED result
    /\ UNCHANGED <<config, data, response, local, calls, lookups, ext>>

\* await makeN8nRequest(...): the call goes out, the handler is suspended
Send(call, label) ==
    /\ pc' = label
    /\ awaiting' = "makeN8nRequest"
    /\ calls' = Append(calls, call)
    /\ UNCHANGED result

\* after the credential lookup: the guard, then the operation's request
Configured(o, call) ==
    /\ pc = "config"
    /\ awaiting = "none"
    /\ op = o
    /\ IF ConfigMissing(config)
       THEN Return(ApiKeyNotFound) /\ UNCHANGED calls
       ELSE Send(call, "request")
    /\ UNCHANGED <<op, args, config, data, response, local, lookups, ext>>

\* after the request: the answer is formatted and returned
Resumed(o, text) ==
    /\ pc = "request"
    /\ awaiting = "none"
    /\ op = o
    /\ Finish(text)
    /\ UNCHANGED <<op, args, config, data, response, local, calls, lookups, ext>>

\* path segment `${id}`
Seg(x) == IF x.t = "string" THEN x.v ELSE x.t

ApiKey == Get(config, "apiKey")

ApiBaseUrl == Get(config, "apiBaseUrl")

----------------------------------------------------------------------------
(* Remote answers *)

Item == Obj([id |-> Str("1"), name |-> Str("a"), tags |-> Arr(<<Str("t")>>)])

\* bodies of a 2xx answer of a list endpoint: JSON null, no body, an
\* envelope without data, empty and non-empty lists, and envelopes whose
\* data or items are not what the client expects
ListBodies ==
    {Null, Str(""),
     Obj([nextCursor |-> Null]),
     Obj([data |-> Arr(<<>>)]),
     Obj([data |-> Arr(<<Item>>)]),
     Obj([data |-> Arr(<<Item, Null>>)]),
     Obj([data |-> Arr(<<Obj([id |-> Str("2"), tags |-> Str("t")])>>)]),
     Obj([data |-> Num(5)])}

\* bodies of a 2xx answer of a single-entity endpoint
EntityBodies ==
    {Null, Str(""),
     Item,
     Obj([id |-> Str("2"), tags |-> Str("t")]),
     Obj([id |-> Str("3"), tags |-> Arr(<<Null>>)])}

CatalogNode ==
    Obj([name |-> Str("Webhook"), type |-> Str("n8n-nodes-base.webhook"),
         description |-> Str("Starts the workflow when a webhook is called")])

\* 2xx bodies of the public catalog
CatalogBodies ==
    {Null, Str(""),
     Arr(<<>>),
     Arr(<<CatalogNode>>),
     Arr(<<CatalogNode, Null>>),
     Arr(<<Obj([name |-> Str("x"), description |-> Num(5), categories |-> Str("c")])>>),
     Obj([data |-> Arr(<<>>)]),
     Obj([data |-> Arr(<<CatalogNode>>)]),
     Obj([data |-> CatalogNode]),
     Obj([name |-> Str("x"), categories |-> Str("c")]),
     Obj([total |-> Num(0)])}

\* identifiers a caller passes for a workflow, execution, credential
Ids == {Str("w1"), Undefined}

----------------------------------------------------------------------------
(* Workflows the remote end may hold *)

Node(type, name, parameters) ==
    Obj([type |-> Str(type), name |-> Str(name), parameters |-> parameters])

WebhookNodes ==
    {Node("n8n-nodes-base.webhook", "Webhook", Obj([path |-> Str("abc")])),
     Node("n8n-nodes-base.webhook", "Webhook", Obj([path |-> Str("abc"), httpMethod |-> Str("GET")])),
     Node("n8n-nodes-base.webhook", "Webhook", Obj([path |-> Str("abc"), httpMethod |-> Str("PUT")])),
     Node("n8n-nodes-base.webhook", "Webhook", Obj([httpMethod |-> Str("POST")]))}

NameAndEmail ==
    Arr(<<Obj([fieldLabel |-> Str("Name"), fieldType |-> Str("text")]),
          Obj([fieldLabel |-> Str("Email"), fieldType |-> Str("email")])>>)

FormNodes ==
    {Obj([type |-> Str("n8n-nodes-base.formTrigger"), name |-> Str("Form"),
          webhookId |-> Str("form-1"),
          parameters |-> Obj([formFields |-> Obj([values |-> NameAndEmail])])]),
     Obj([type |-> Str("n8n-nodes-base.formTrigger"), name |-> Str("Form"),
          parameters |-> Obj([fields |-> Arr(<<Null>>)])])}

OtherNodes ==
    {Node("n8n-nodes-base.scheduleTrigger", "Schedule", Undefined),
     Node("n8n-nodes-base.chatTrigger", "Chat", Undefined),
     Node("n8n-nodes-base.manualTrigger", "Manual", Undefined),
     Node("n8n-nodes-base.set", "Set", Undefined),
     Null}

Nodes == WebhookNodes \cup FormNodes \cup OtherNodes

\* a trigger behind a node that is none, and two triggers in one workflow
TwoNodes ==
    {<<Node("n8n-nodes-base.set", "Set", Undefined),
       Node("n8n-nodes-base.webhook", "Webhook", Obj([path |-> Str("abc")]))>>,
     <<Node("n8n-nodes-base.manualTrigger", "Manual", Undefined),
       Node("n8n-nodes-base.webhook", "Webhook", Obj([path |-> Str("abc")]))>>}

NodeLists == UNION {[1..n -> Nodes] : n \in 0..MaxNodes} \cup TwoNodes

\* a published version whose form trigger declares other fields, and one
\* whose node list holds a null entry
ActiveVersions ==
    {Obj([nodes |-> Arr(<<Obj([type |-> Str("n8n-nodes-base.formTrigger"), name |-> Str("Form"),
                               parameters |-> Obj([formFields |-> Obj([values |->
                                   Arr(<<Obj([fieldLabel |-> Str("Company"),
                                              fieldType |-> Str("number")])>>)])])])>>)]),
     Obj([nodes |-> Arr(<<Null>>)])}

\* active flag, published version id, published version
Publications ==
    {[active |-> a, activeVersionId |-> Undefined, activeVersion |-> Undefined] :
        a \in {Bool(TRUE), Bool(FALSE), Undefined}}
    \cup {[active |-> Bool(TRUE), activeVersionId |-> Str("v1"), activeVersion |-> v] :
        v \in {Undefined} \cup ActiveVersions}

Workflow(id, nodes, p) ==
    Obj([id |-> id, name |-> Str("wf"), nodes |-> nodes, active |-> p.active,
         activeVersionId |-> p.activeVersionId, activeVersion |-> p.activeVersion])

Workflows ==
    {Workflow(Str("w1"), Arr(nodes), p) : nodes \in NodeLists, p \in Publications}
    \cup {Workflow(id, nodes, p) :
            id \in {Undefined}, p \in Publications,
            nodes \in {Undefined, Str("nodes"),
                       Arr(<<Node("n8n-nodes-base.formTrigger", "Form", Undefined)>>)}}

\* 2xx bodies of GET workflows/{id}
WorkflowBodies == {Null, Str("")} \cup Workflows

\* 2xx bodies of a run, webhook or form call
RunBodies == {Null, Str(""), Obj([data |-> Obj([executionId |-> Str("e1")])])}

\* input data a caller passes to executeN8nWorkflow
InputData ==
    {Null, Str("hello"),
     Obj([f \in {"field-0", "field-1"} |-> IF f = "field-0" THEN Str("") ELSE Str("x")]),
     Arr(<<Obj([a |-> Num(1)])>>)}

----------------------------------------------------------------------------
(* Collaborators *)

Last(s) == s[Len(s)]

\* await getN8nConfig(userId) completes: the store answers or raises, the
\* decrypt primitive returns or raises
ResolveConfig ==
    /\ awaiting = "getN8nConfig"
    /\ \E storeThrows \in BOOLEAN, decrypted \in DecryptOutcomes :
         LET user == findById(args.userId)
             decrypts == /\ ~storeThrows
                         /\ GetN8nConfigResult(user, FALSE, Str("key")) # Null
         IN  /\ config' = GetN8nConfigResult(user, storeThrows, decrypted)
             /\ ext' = [ext EXCEPT
                          !.findById = IF storeThrows THEN "throws" ELSE "returned",
                          !.decryptedData = IF ~decrypts THEN "not called"
                                            ELSE IF decrypted = Throw THEN "throws"
                                            ELSE "returned"]
    /\ lookups' = lookups + 1
    /\ awaiting' = "none"
    /\ UNCHANGED <<pc, op, args, data, response, local, calls, result>>

\* the 2xx bodies the remote end may answer an operation's request with
RemoteBodies(o, label) ==
    CASE o \in {"listN8nWorkflows", "listN8nExecutions", "listN8nCredentials",
                "listN8nWebhooks", "listN8nTags"} -> ListBodies
      [] o = "executeN8nWorkflow" /\ label = "request" -> WorkflowBodies
      [] OTHER -> EntityBodies

\* the 2xx statuses the remote end may answer an operation's request with
RemoteStatuses(o, label) ==
    IF o = "executeN8nWorkflow" /\ label = "request" THEN {200} ELSE {200, 201}

\* await makeN8nRequest(...) completes
ResolveRequest ==
    /\ awaiting = "makeN8nRequest"
    /\ \E o \in Failures \cup Responses(RemoteStatuses(op, pc), RemoteBodies(op, pc)) :
         /\ data' = MakeN8nRequestResult(Last(calls).method, o)
         /\ ext' = [ext EXCEPT !.via = "makeN8nRequest", !.http = o]
    /\ awaiting' = "none"
    /\ UNCHANGED <<pc, op, args, config, response, local, calls, lookups, result>>

\* the 2xx bodies the remote end may answer a direct axios call with
AxiosAnswers(o, label) ==
    IF o = "executeN8nWorkflow" THEN Responses({200, 201}, RunBodies)
    ELSE Responses({200}, CatalogBodies)

\* await axios.get/post(...) completes
ResolveAxios ==
    /\ awaiting = "axios"
    /\ \E o \in Failures \cup AxiosAnswers(op, pc) :
         /\ response' = o
         /\ ext' = [ext EXCEPT !.via = "axios", !.http = o]
    /\ awaiting' = "none"
    /\ UNCHANGED <<pc, op, args, config, data, local, calls, lookups, result>>

\* the caller has the value; nothing of the call is kept
Returned ==
    /\ pc \in {"done", "thrown"}
    /\ pc' = "idle"
    /\ awaiting' = "none"
    /\ op' = "none"
    /\ args' = NoArgs
    /\ config' = Undefined
    /\ data' = Undefined
    /\ response' = Undefined
    /\ local' = NoLocal
    /\ calls' = <<>>
    /\ lookups' = 0
    /\ ext' = NoExt
    /\ result' = NoResult

----------------------------------------------------------------------------
(* Core functions, called by a client of the module *)

makeN8nRequest ==
    \/ /\ pc = "idle"
       /\ \E method \in Verbs \cup {"HEAD"}, apiBaseUrl \in {Null, Str(UserBaseUrl)} :
            /\ op' = "makeN8nRequest"
            /\ args' = [userId |-> Undefined, method |-> method]
            /\ IF method \in Verbs
               THEN Send(Request(<<"workflows">>, Str("key"), Null, Obj([name |-> Str("a")]),
                                 method, apiBaseUrl), "request")
                    /\ UNCHANGED data
               ELSE /\ data' = MakeN8nRequestResult(method, NoOutcome)
                    /\ pc' = "request"
                    /\ UNCHANGED <<awaiting, calls, result>>
       /\ UNCHANGED <<config, response, local, lookups, ext>>
    \/ Resumed("makeN8nRequest", data)

getN8nConfig ==
    \/ /\ pc = "idle"
       /\ \E userId \in UserIds :
            /\ op' = "getN8nConfig"
            /\ args' = [userId |-> userId]
       /\ pc' = "config"
       /\ awaiting' = "getN8nConfig"
       /\ UNCHANGED <<config, data, response, local, calls, lookups, ext, result>>
    \/ /\ pc = "config" /\ awaiting = "none" /\ op = "getN8nConfig"
       /\ Finish(config)
       /\ UNCHANGED <<op, args, config, data, response, local, calls, lookups, ext>>

getN8nApiKey ==
    \/ /\ pc = "idle"
       /\ \E userId \in UserIds :
            /\ op' = "getN8nApiKey"
            /\ args' = [userId |-> userId]
       /\ pc' = "config"
       /\ awaiting' = "getN8nConfig"
       /\ UNCHANGED <<config, data, response, local, calls, lookups, ext, result>>
    \/ /\ pc = "config" /\ awaiting = "none" /\ op = "getN8nApiKey"
       /\ Return(IF Truthy(config) THEN Get(config, "apiKey") ELSE Null)
       /\ UNCHANGED <<op, args, config, data, response, local, calls, lookups, ext>>

----------------------------------------------------------------------------
(* Workflow functions *)

\* the loop of a list operation raises on a null item, on a data field that
\* is not iterable and, where tags are joined, on tags that are not a list
ListText(d, failed, none, found, joinsTags) ==
    IF ~Truthy(d) THEN Text(failed, <<>>)
    ELSE LET items == Or(Get(d, "data"), Arr(<<>>)) IN
         IF LengthIsZero(items) THEN Text(none, <<>>)
         ELSE IF ~Iterable(items) THEN Throw
         ELSE IF \E x \in Elements(items) :
                    \/ Nullish(x)
                    \/ joinsTags /\ Truthy(Get(x, "tags")) /\ ~IsArray(Get(x, "tags"))
              THEN Throw
         ELSE Text(found, <<>>)

listN8nWorkflowsText(d) ==
    ListText(d, "Failed to get workflows", "No workflows found",
             "Found ${workflows.length} workflows:", TRUE)

listN8nWorkflows ==
    \/ \E userId \in UserIds : Call("listN8nWorkflows", [userId |-> userId])
    \/ Configured("listN8nWorkflows",
                  Request(<<"workflows">>, ApiKey, Obj([limit |-> Num(100)]), Null, "GET", ApiBaseUrl))
    \/ Resumed("listN8nWorkflows", listN8nWorkflowsText(data))

getN8nWorkflowText(d) ==
    IF ~Truthy(d) THEN Text("Failed to get workflow: ${workflowId}", <<>>)
    ELSE IF Truthy(Get(d, "tags")) /\ ~IsArray(Get(d, "tags")) THEN Throw
    ELSE Text("**Workflow Details:**", <<>>)

getN8nWorkflow ==
    \/ \E userId \in UserIds, workflowId \in Ids :
         Call("getN8nWorkflow", [userId |-> userId, workflowId |-> workflowId])
    \/ Configured("getN8nWorkflow",
                  Request(<<"workflows", Seg(args.workflowId)>>, ApiKey, Null, Null, "GET", ApiBaseUrl))
    \/ Resumed("getN8nWorkflow", getN8nWorkflowText(data))

updateN8nWorkflowText(d) ==
    IF ~Truthy(d) THEN Text("Failed to update workflow: ${workflowId}", <<>>)
    ELSE Text("**Updated Workflow:**", <<>>)

\* updateData: only the arguments that are not null are sent
updateData(a) ==
    Obj([f \in {g \in {"name", "nodes", "connections", "active"} : a[g] # Null} |-> a[f]])

updateN8nWorkflow ==
    \/ \E userId \in UserIds, workflowId \in Ids,
          name \in {Null, Str("a")}, active \in {Null, Bool(FALSE)} :
         Call("updateN8nWorkflow", [userId |-> userId, workflowId |-> workflowId,
                                    name |-> name, nodes |-> Null, connections |-> Null,
                                    active |-> active])
    \/ Configured("updateN8nWorkflow",
                  Request(<<"workflows", Seg(args.workflowId)>>, ApiKey, Null, updateData(args),
                          "PUT", ApiBaseUrl))
    \/ Resumed("updateN8nWorkflow", updateN8nWorkflowText(data))

\* deleteN8nWorkflow compares with null, the others test falsiness
deleteN8nWorkflowText(d) ==
    IF d = Null THEN Text("Failed to delete workflow: ${workflowId}", <<>>)
    ELSE Text("Successfully deleted workflow: ${workflowId}", <<>>)

deleteN8nWorkflow ==
    \/ \E userId \in UserIds, workflowId \in Ids :
         Call("deleteN8nWorkflow", [userId |-> userId, workflowId |-> workflowId])
    \/ Configured("deleteN8nWorkflow",
                  Request(<<"workflows", Seg(args.workflowId)>>, ApiKey, Null, Null, "DELETE", ApiBaseUrl))
    \/ Resumed("deleteN8nWorkflow", deleteN8nWorkflowText(data))

activateN8nWorkflowText(d) ==
    IF ~Truthy(d) THEN Text("Failed to activate workflow: ${workflowId}", <<>>)
    ELSE Text("Successfully activated workflow: ${workflowId}", <<>>)

activateN8nWorkflow ==
    \/ \E userId \in UserIds, workflowId \in Ids :
         Call("activateN8nWorkflow", [userId |-> userId, workflowId |-> workflowId])
    \/ Configured("activateN8nWorkflow",
                  Request(<<"workflows", Seg(args.workflowId), "activate">>, ApiKey, Null, Null,
                          "POST", ApiBaseUrl))
    \/ Resumed("activateN8nWorkflow", activateN8nWorkflowText(data))

deactivateN8nWorkflowText(d) ==
    IF ~Truthy(d) THEN Text("Failed to deactivate workflow: ${workflowId}", <<>>)
    ELSE Text("Successfully deactivated workflow: ${workflowId}", <<>>)

deactivateN8nWorkflow ==
    \/ \E userId \in UserIds, workflowId \in Ids :
         Call("deactivateN8nWorkflow", [userId |-> userId, workflowId |-> workflowId])
    \/ Configured("deactivateN8nWorkflow",
                  Request(<<"workflows", Seg(args.workflowId), "deactivate">>, ApiKey, Null, Null,
                          "POST", ApiBaseUrl))
    \/ Resumed("deactivateN8nWorkflow", deactivateN8nWorkflowText(data))

\* nodes a caller passes to createN8nWorkflow
GoodNode ==
    Obj([type |-> Str("n8n-nodes-base.set"), name |-> Str("Set"),
         position |-> Arr(<<Num(1), Num(2)>>)])

CreateNodes ==
    {Null,
     GoodNode,
     Obj([type |-> Str("n8n-nodes-base.set"), name |-> Str("Set"),
          position |-> Arr(<<Num(1), Num(2)>>), typeVersion |-> Str("2"),
          id |-> Num(1), disabled |-> Num(0), maxTries |-> Str("x")]),
     Obj([type |-> Str("n8n-nodes-base.set"), name |-> Str("Set"),
          position |-> Arr(<<Num(1), Num(2)>>), typeVersion |-> Null]),
     Obj([name |-> Str("Set"), position |-> Arr(<<Num(1), Num(2)>>)]),
     Obj([type |-> Str("n8n-nodes-base.set"), position |-> Arr(<<Num(1), Num(2)>>)]),
     Obj([type |-> Str("n8n-nodes-base.set"), name |-> Str("Set")]),
     Obj([type |-> Str("n8n-nodes-base.set"), name |-> Str("Set"),
          position |-> Arr(<<Num(1)>>)]),
     Obj([type |-> Str("n8n-nodes-base.set"), name |-> Str("Set"),
          position |-> Arr(<<Str("1"), Num(2)>>)])}

CreateNodeLists ==
    {Undefined, Str("nodes"), Arr(<<>>)}
    \cup {Arr(<<n>>) : n \in CreateNodes}
    \cup {Arr(<<GoodNode, n>>) : n \in CreateNodes}

\* the filter of createN8nWorkflow keeps the nodes that are refused
InvalidNode(node) ==
    \/ ~Truthy(node) \/ node.t \notin {"object", "array"}
    \/ ~Truthy(Get(node, "type"))
    \/ ~Truthy(Get(node, "name"))
    \/ ~Truthy(Get(node, "position"))
    \/ ~IsArray(Get(node, "position"))
    \/ Len(Get(node, "position").v) # 2
    \/ ~IsNumber(Get(node, "position").v[1])
    \/ ~IsNumber(Get(node, "position").v[2])

StringFields == {"notes", "onError", "webhookId"}

BooleanFields == {"disabled", "notesInFlow", "retryOnFail", "executeOnce", "alwaysOutputData"}

NumberFields == {"maxTries", "waitBetweenTries"}

PlainFields == {"parameters", "credentials"}

\* the optional fields the normalizer copies
KeptFields(node) ==
    {f \in PlainFields \cup StringFields : ~Nullish(Get(node, f))}
    \cup {f \in BooleanFields \cup NumberFields : Get(node, f) # Undefined}
    \cup {f \in {"id"} : ~Nullish(Get(node, "id")) /\ Trim(String(Get(node, "id"))) # Str("")}

\* the normalizer mutated: the optional boolean fields are negated
NormalizeNodeNegates(node) ==
    Obj([f \in {"type", "name", "position", "typeVersion"} \cup KeptFields(node) |->
           CASE f \in {"type", "name", "id"} \cup StringFields -> String(Get(node, f))
             [] f = "position" -> Arr(<<Number(Get(node, "position").v[1]),
                                        Number(Get(node, "position").v[2])>>)
             [] f = "typeVersion" -> IF Get(node, "typeVersion") # Undefined
                                     THEN Number(Get(node, "typeVersion")) ELSE Num(1)
             [] f \in BooleanFields -> Bool(~Truthy(Get(node, f)))
             [] f \in NumberFields -> Number(Get(node, f))
             [] OTHER -> Get(node, f)])

\* nodes.map(node => normalizedNode)
NormalizeNode(node) ==
    Obj([f \in {"type", "name", "position", "typeVersion"} \cup KeptFields(node) |->
           CASE f \in {"type", "name", "id"} \cup StringFields -> String(Get(node, f))
             [] f = "position" -> Arr(<<Number(Get(node, "position").v[1]),
                                        Number(Get(node, "position").v[2])>>)
             [] f = "typeVersion" -> IF Get(node, "typeVersion") # Undefined
                                     THEN Number(Get(node, "typeVersion")) ELSE Num(1)
             [] f \in BooleanFields -> Boolean(Get(node, f))
             [] f \in NumberFields -> Number(Get(node, f))
             [] OTHER -> Get(node, f)])

\* the first validation of createN8nWorkflow that refuses the arguments
createN8nWorkflowRefusal(a) ==
    IF ~Truthy(a.name) \/ a.name.t # "string" \/ Trim(a.name) = Str("")
    THEN Text("Error: Workflow name is required and must be a non-empty string.", <<>>)
    ELSE IF ~Truthy(a.nodes) \/ ~IsArray(a.nodes) \/ a.nodes.v = <<>>
    THEN Text("Error: At least one node is required. Provide an array of workflow nodes.", <<>>)
    ELSE IF \E n \in Elements(a.nodes) : InvalidNode(n)
    THEN Text("Error: Invalid node structure. Each node must have: type, name, and position [x, y] (with numeric values). Found ${invalidNodes.length} invalid node(s).", <<>>)
    ELSE Null

workflowData(a) ==
    Obj([name |-> Trim(a.name),
         nodes |-> Arr([i \in 1..Len(a.nodes.v) |-> NormalizeNode(a.nodes.v[i])]),
         connections |-> Obj([c \in {} |-> Null]),
         settings |-> Obj([c \in {} |-> Null])])

\* data.tags.map(tag => tag.name || tag.id || tag) raises on a null tag
createN8nWorkflowText(d) ==
    IF ~Truthy(d)
    THEN Text("Failed to create workflow: ${name}. Please check the workflow structure and ensure all required fields are provided.", <<>>)
    ELSE IF IsArray(Get(d, "tags")) /\ \E tag \in Elements(Get(d, "tags")) : Nullish(tag)
    THEN Throw
    ELSE Text("**Created Workflow:**", <<>>)

createN8nWorkflow ==
    \/ \E userId \in UserIds, name \in {Undefined, Str(" "), Str(" wf ")},
          nodes \in CreateNodeLists :
         Call("createN8nWorkflow", [userId |-> userId, name |-> name, nodes |-> nodes])
    \/ /\ pc = "config" /\ awaiting = "none" /\ op = "createN8nWorkflow"
       /\ IF ConfigMissing(config)
          THEN Return(ApiKeyNotFound) /\ UNCHANGED calls
          ELSE IF createN8nWorkflowRefusal(args) # Null
          THEN Return(createN8nWorkflowRefusal(args)) /\ UNCHANGED calls
          ELSE Send(Request(<<"workflows">>, ApiKey, Null, workflowData(args), "POST", ApiBaseUrl),
                    "request")
       /\ UNCHANGED <<op, args, config, data, response, local, lookups, ext>>
    \/ Resumed("createN8nWorkflow", createN8nWorkflowText(data))

----------------------------------------------------------------------------
(* Execution, credential, user, webhook and tag functions *)

listN8nExecutionsText(d) ==
    ListText(d, "Failed to get executions", "No executions found",
             "Found ${executions.length} executions:", FALSE)

listN8nExecutions ==
    \/ \E userId \in UserIds, workflowId \in {Null, Str("w1")} :
         Call("listN8nExecutions", [userId |-> userId, workflowId |-> workflowId])
    \/ Configured("listN8nExecutions",
                  Request(<<"executions">>, ApiKey,
                          IF Truthy(args.workflowId)
                          THEN Obj([limit |-> Num(100), workflowId |-> args.workflowId])
                          ELSE Obj([limit |-> Num(100)]),
                          Null, "GET", ApiBaseUrl))
    \/ Resumed("listN8nExecutions", listN8nExecutionsText(data))

getN8nExecutionText(d) ==
    IF ~Truthy(d) THEN Text("Failed to get execution: ${executionId}", <<>>)
    ELSE Text("**Execution Details:**", <<>>)

getN8nExecution ==
    \/ \E userId \in UserIds, executionId \in Ids :
         Call("getN8nExecution", [userId |-> userId, executionId |-> executionId])
    \/ Configured("getN8nExecution",
                  Request(<<"executions", Seg(args.executionId)>>, ApiKey, Null, Null, "GET", ApiBaseUrl))
    \/ Resumed("getN8nExecution", getN8nExecutionText(data))

listN8nCredentialsText(d) ==
    ListText(d, "Failed to get credentials", "No credentials found",
             "Found ${credentials.length} credentials:", FALSE)

listN8nCredentials ==
    \/ \E userId \in UserIds : Call("listN8nCredentials", [userId |-> userId])
    \/ Configured("listN8nCredentials",
                  Request(<<"credentials">>, ApiKey, Null, Null, "GET", ApiBaseUrl))
    \/ Resumed("listN8nCredentials", listN8nCredentialsText(data))

getN8nCredentialText(d) ==
    IF ~Truthy(d) THEN Text("Failed to get credential: ${credentialId}", <<>>)
    ELSE Text("**Credential Details:**", <<>>)

getN8nCredential ==
    \/ \E userId \in UserIds, credentialId \in Ids :
         Call("getN8nCredential", [userId |-> userId, credentialId |-> credentialId])
    \/ Configured("getN8nCredential",
                  Request(<<"credentials", Seg(args.credentialId)>>, ApiKey, Null, Null, "GET", ApiBaseUrl))
    \/ Resumed("getN8nCredential", getN8nCredentialText(data))

getN8nUserInfoText(d) ==
    IF ~Truthy(d) THEN Text("Failed to get user info", <<>>)
    ELSE Text("**User Information:**", <<>>)

getN8nUserInfo ==
    \/ \E userId \in UserIds : Call("getN8nUserInfo", [userId |-> userId])
    \/ Configured("getN8nUserInfo",
                  Request(<<"users", "me">>, ApiKey, Null, Null, "GET", ApiBaseUrl))
    \/ Resumed("getN8nUserInfo", getN8nUserInfoText(data))

listN8nWebhooksText(d) ==
    ListText(d, "Failed to get webhooks", "No webhooks found",
             "Found ${webhooks.length} webhooks:", FALSE)

listN8nWebhooks ==
    \/ \E userId \in UserIds : Call("listN8nWebhooks", [userId |-> userId])
    \/ Configured("listN8nWebhooks",
                  Request(<<"webhooks">>, ApiKey, Null, Null, "GET", ApiBaseUrl))
    \/ Resumed("listN8nWebhooks", listN8nWebhooksText(data))

listN8nTagsText(d) ==
    ListText(d, "Failed to get tags", "No tags found", "Found ${tags.length} tags:", FALSE)

listN8nTags ==
    \/ \E userId \in UserIds : Call("listN8nTags", [userId |-> userId])
    \/ Configured("listN8nTags", Request(<<"tags">>, ApiKey, Null, Null, "GET", ApiBaseUrl))
    \/ Resumed("listN8nTags", listN8nTagsText(data))

createN8nTagText(d) ==
    IF ~Truthy(d) THEN Text("Failed to create tag: ${name}", <<>>)
    ELSE Text("**Created Tag:**", <<>>)

createN8nTag ==
    \/ \E userId \in UserIds, name \in {Undefined, Str("urgent")} :
         Call("createN8nTag", [userId |-> userId, name |-> name])
    \/ Configured("createN8nTag",
                  Request(<<"tags">>, ApiKey, Null, Obj([name |-> args.name]), "POST", ApiBaseUrl))
    \/ Resumed("createN8nTag", createN8nTagText(data))

----------------------------------------------------------------------------
(* Discovery, template and validation functions *)

\* a call made with axios directly
Direct(url, method, apiKey, params, body) ==
    [url |-> url, method |-> method, apiKey |-> apiKey, params |-> params, body |-> body]

\* await axios.get(...): the call goes out, the handler is suspended
SendDirect(call, label) ==
    /\ pc' = label
    /\ awaiting' = "axios"
    /\ calls' = Append(calls, call)
    /\ UNCHANGED result

allTools ==
    {"list_n8n_workflows", "get_n8n_workflow", "create_n8n_workflow", "update_n8n_workflow",
     "delete_n8n_workflow", "activate_n8n_workflow", "deactivate_n8n_workflow",
     "list_n8n_executions", "get_n8n_execution", "execute_n8n_workflow",
     "list_n8n_credentials", "get_n8n_credential", "get_n8n_user_info", "list_n8n_webhooks",
     "list_n8n_tags", "create_n8n_tag", "search_n8n_nodes", "get_n8n_node",
     "search_n8n_templates", "get_n8n_template", "validate_n8n_node", "validate_n8n_workflow"}

getN8nToolsDocumentationText(toolName) ==
    IF Truthy(toolName)
    THEN IF toolName.v \notin allTools
         THEN Text("Tool \"${toolName}\" not found. Available tools: ${...}", <<>>)
         ELSE Text("**${tool.name}**", <<>>)
    ELSE Text("**Available n8n MCP Tools (${allTools.length}):**", <<>>)

getN8nToolsDocumentation ==
    /\ pc = "idle"
    /\ \E toolName \in {Null, Str("get_n8n_node"), Str("run_n8n")} :
         /\ op' = "getN8nToolsDocumentation"
         /\ args' = [userId |-> Undefined, toolName |-> toolName]
         /\ Return(getN8nToolsDocumentationText(toolName))
    /\ UNCHANGED <<config, data, response, local, calls, lookups, ext>>

\* s.includes(sub) (s.toLowerCase().includes(sub.toLowerCase()) in the node
\* search), for the node types and keywords the inputs use
Includes(s, sub) ==
    \/ sub = ""
    \/ sub = "webhook" /\ s \in {"webhook", "n8n-nodes-base.webhook"}
    \/ sub = "httpRequest" /\ s = "n8n-nodes-base.httpRequest"
    \/ sub = "could not be started" /\ s = "Workflow could not be started"
    \/ sub = s

commonNodes ==
    {[type |-> "n8n-nodes-base.webhook", name |-> "webhook"],
     [type |-> "n8n-nodes-base.httpRequest", name |-> "http request"],
     [type |-> "n8n-nodes-base.set", name |-> "set"],
     [type |-> "n8n-nodes-base.if", name |-> "if"],
     [type |-> "n8n-nodes-base.switch", name |-> "switch"],
     [type |-> "n8n-nodes-base.code", name |-> "code"],
     [type |-> "n8n-nodes-base.function", name |-> "function"],
     [type |-> "n8n-nodes-base.slack", name |-> "slack"],
     [type |-> "n8n-nodes-base.gmail", name |-> "gmail"],
     [type |-> "n8n-nodes-base.googleSheets", name |-> "google sheets"]}

\* response.data?.data || response.data
Payload(o) == Or(Opt(o.data, "data"), o.data)

\* the loop over nodes or templates raises on a null entry, on a
\* description that has no substring and on categories that have no join
EntryRaises(x) ==
    \/ Nullish(x)
    \/ Truthy(Get(x, "description")) /\ Get(x, "description").t # "string"

CategoriesRaise(x) ==
    /\ Get(x, "categories").t = "string"
    /\ Get(x, "categories").v # ""

searchN8nNodesText(keyword, o) ==
    LET nodes == Or(Payload(o), Arr(<<>>))
        raised == \/ AxiosRejects(o)
                  \/ /\ ~LengthIsZero(nodes)
                     /\ \/ ~IsArray(nodes)
                        \/ \E n \in Elements(nodes) : EntryRaises(n)
    IN  IF raised
        THEN IF \E n \in commonNodes : Includes(n.name, keyword.v) \/ Includes(n.type, keyword.v)
             THEN Text("Found ${matching.length} common node(s) matching \"${keyword}\":", <<>>)
             ELSE Text("Error searching nodes: ${error.message}. Try using a specific node type like \"webhook\", \"httpRequest\", or \"slack\".", <<>>)
        ELSE IF LengthIsZero(nodes)
        THEN Text("No nodes found matching \"${keyword}\". Try a different keyword or check the node type name.", <<>>)
        ELSE Text("Found ${nodes.length} node(s) matching \"${keyword}\":", <<>>)

\* an operation of the public catalog: the argument is checked, one axios
\* call is awaited, the answer is formatted
Catalog(o, argName, argValues, missing, url, text) ==
    \/ /\ pc = "idle"
       /\ \E a \in argValues :
            /\ op' = o
            /\ args' = [userId |-> Undefined, arg |-> a]
            /\ IF ~Truthy(a)
               THEN Return(Text(missing, <<>>)) /\ UNCHANGED calls
               ELSE SendDirect(Direct(url, "GET", Undefined, Obj([search |-> a]), Null), "request")
       /\ UNCHANGED <<config, data, response, local, lookups, ext>>
    \/ /\ pc = "request" /\ awaiting = "none" /\ op = o
       /\ Finish(text)
       /\ UNCHANGED <<op, args, config, data, response, local, calls, lookups, ext>>

searchN8nNodes ==
    Catalog("searchN8nNodes", "keyword", {Undefined, Str("webhook"), Str("zapier")},
            "Error: Keyword is required for node search.",
            <<CATALOG, "nodes">>, searchN8nNodesText(args.arg, response))

nodeInfo == {"n8n-nodes-base.webhook", "n8n-nodes-base.httpRequest", "n8n-nodes-base.set"}

getN8nNodeText(nodeType, o) ==
    IF AxiosRejects(o)
    THEN IF nodeType.v \in nodeInfo
         THEN Text("**Node Information:**", <<"nodeInfo">>)
         ELSE Text("Node \"${nodeType}\" not found. Error: ${error.message}. Use search_n8n_nodes to find available nodes.", <<>>)
    ELSE IF ~Truthy(Payload(o))
    THEN Text("Node \"${nodeType}\" not found. Use search_n8n_nodes to find available nodes.", <<>>)
    ELSE Text("**Node Information:**", <<"catalog">>)

getN8nNode ==
    Catalog("getN8nNode", "nodeType",
            {Undefined, Str("n8n-nodes-base.webhook"), Str("n8n-nodes-base.zapier")},
            "Error: Node type is required. Example: \"n8n-nodes-base.webhook\"",
            <<CATALOG, "nodes", "${nodeType}">>, getN8nNodeText(args.arg, response))

searchN8nTemplatesText(query, o) ==
    LET templates == Or(Payload(o), Arr(<<>>))
        raised == \/ AxiosRejects(o)
                  \/ /\ ~LengthIsZero(templates)
                     /\ \/ ~IsArray(templates)
                        \/ \E x \in Elements(templates) : EntryRaises(x) \/ CategoriesRaise(x)
    IN  IF raised
        THEN Text("Error searching templates: ${error.message}. The n8n templates API may be temporarily unavailable.", <<>>)
        ELSE IF LengthIsZero(templates)
        THEN Text("No templates found matching \"${query}\". Try different keywords like \"slack\", \"gmail\", \"automation\", etc.", <<>>)
        ELSE Text("Found ${templates.length} template(s) matching \"${query}\":", <<>>)

searchN8nTemplates ==
    Catalog("searchN8nTemplates", "query", {Undefined, Str("slack")},
            "Error: Search query is required.",
            <<CATALOG, "workflows", "templates">>, searchN8nTemplatesText(args.arg, response))

getN8nTemplateText(templateId, o) ==
    IF AxiosRejects(o) \/ (Truthy(Payload(o)) /\ CategoriesRaise(Payload(o)))
    THEN Text("Error retrieving template: ${error.message}. Template ID \"${templateId}\" may not exist.", <<>>)
    ELSE IF ~Truthy(Payload(o))
    THEN Text("Template \"${templateId}\" not found. Use search_n8n_templates to find available templates.", <<>>)
    ELSE Text("**Template Details:**", <<>>)

getN8nTemplate ==
    Catalog("getN8nTemplate", "templateId", {Undefined, Str("12")},
            "Error: Template ID is required. Use search_n8n_templates to find template IDs.",
            <<CATALOG, "workflows", "templates", "${templateId}">>,
            getN8nTemplateText(args.arg, response))

\* the report mutated: warnings alone do not keep it from passing
ReportPassesOnWarnings(s, errors, warnings) ==
    [t |-> "string", v |-> s, vals |-> <<>>, errors |-> errors, warnings |-> warnings,
     passed |-> errors = {}]

\* a validation report: the lists of errors and warnings, and whether the
\* text says "Validation Passed"
Report(s, errors, warnings) ==
    [t |-> "string", v |-> s, vals |-> <<>>, errors |-> errors, warnings |-> warnings,
     passed |-> errors = {} /\ warnings = {}]

validateN8nNodeText(nodeType, cfg, mode) ==
    IF ~Truthy(nodeType) THEN Text("Error: Node type is required.", <<>>)
    ELSE IF ~Truthy(cfg) \/ cfg.t \notin {"object", "array"}
    THEN Text("Error: Node configuration is required and must be an object.", <<>>)
    ELSE LET parameters == Get(cfg, "parameters")
             missing(f) == ~Truthy(parameters) \/ ~Truthy(Get(parameters, f))
             errors ==
                 {e \in {"Webhook node requires \"parameters.httpMethod\" (GET, POST, etc.)"} :
                     Includes(nodeType.v, "webhook") /\ missing("httpMethod")}
                 \cup {e \in {"HTTP Request node requires \"parameters.url\""} :
                     Includes(nodeType.v, "httpRequest") /\ missing("url")}
                 \cup {e \in {"HTTP Request node requires \"parameters.method\" (GET, POST, etc.)"} :
                     Includes(nodeType.v, "httpRequest") /\ missing("method")}
             warnings ==
                 {w \in {"Node type in config does not match the provided nodeType parameter"} :
                     ~Truthy(Get(cfg, "type")) /\ ~Includes(nodeType.v, String(Get(cfg, "type")).v)}
                 \cup {w \in {"Node name is recommended but not required"} :
                     mode = "full" /\ ~Truthy(Get(cfg, "name"))}
                 \cup {w \in {"Node position [x, y] is recommended for proper workflow visualization"} :
                     mode = "full" /\ (\/ ~Truthy(Get(cfg, "position"))
                                       \/ ~IsArray(Get(cfg, "position"))
                                       \/ Len(Get(cfg, "position").v) # 2)}
                 \cup {w \in {"Webhook node should have \"parameters.path\" for the webhook URL"} :
                     Includes(nodeType.v, "webhook") /\ missing("path")}
         IN  Report("**Node Validation Result:**", errors, warnings)

NodeConfigs ==
    {Undefined, Str("config"),
     Obj([name |-> Str("n")]),
     Obj([type |-> Str(""), name |-> Str("n"), position |-> Arr(<<Num(1), Num(2)>>)]),
     Obj([type |-> Str("n8n-nodes-base.webhook"), name |-> Str("n"),
          position |-> Arr(<<Num(1), Num(2)>>),
          parameters |-> Obj([httpMethod |-> Str("GET"), path |-> Str("p")])]),
     Obj([type |-> Str("n8n-nodes-base.webhook"), parameters |-> Obj([path |-> Str("p")])]),
     Obj([type |-> Str("n8n-nodes-base.httpRequest"), name |-> Str("n"),
          position |-> Arr(<<Num(1)>>),
          parameters |-> Obj([url |-> Str("u"), method |-> Str("GET")])])}

validateN8nNode ==
    /\ pc = "idle"
    /\ \E nodeType \in {Undefined, Str("n8n-nodes-base.webhook"),
                        Str("n8n-nodes-base.httpRequest"), Str("n8n-nodes-base.set")},
          cfg \in NodeConfigs, mode \in {"minimal", "full"} :
         /\ op' = "validateN8nNode"
         /\ args' = [userId |-> Undefined, nodeType |-> nodeType, config |-> cfg, mode |-> mode]
         /\ Return(validateN8nNodeText(nodeType, cfg, mode))
    /\ UNCHANGED <<config, data, response, local, calls, lookups, ext>>

\* workflows a caller passes to validateN8nWorkflow
ValidatedWorkflows ==
    {Undefined, Str("workflow"),
     Obj([name |-> Str("wf"), nodes |-> Arr(<<GoodNode>>), connections |-> Obj([c \in {} |-> Null])]),
     Obj([name |-> Str("wf"), nodes |-> Arr(<<>>)]),
     Obj([nodes |-> Arr(<<Obj([name |-> Str("Set")])>>)]),
     Obj([name |-> Str("wf"), nodes |-> Arr(<<GoodNode, Null>>)]),
     Obj([name |-> Str("wf"), nodes |-> Str("nodes")])}

\* workflow.nodes.forEach(node => ... node.type ...) raises on a null node
validateN8nWorkflowRaises(workflow) ==
    /\ IsArray(Get(workflow, "nodes"))
    /\ \E n \in Elements(Get(workflow, "nodes")) : Nullish(n)

validateN8nWorkflowText(workflow, cfg) ==
    LET nodes == Get(workflow, "nodes")
        listed == Truthy(nodes) /\ IsArray(nodes)
        indexes == IF listed THEN 1..Len(nodes.v) ELSE {}
        errors ==
            {e \in {"Workflow must have a \"name\" property"} : ~Truthy(Get(workflow, "name"))}
            \cup {e \in {"Workflow must have a \"nodes\" array"} : ~listed}
            \cup {e \in {"Workflow must have at least one node"} : listed /\ nodes.v = <<>>}
            \cup {e \in {"Node ${index + 1} is missing \"type\" property"} :
                    \E i \in indexes : ~Truthy(Get(nodes.v[i], "type"))}
        warnings ==
            {w \in {"Node ${index + 1} should have a \"name\" property"} :
                    \E i \in indexes : ~Truthy(Get(nodes.v[i], "name"))}
            \cup {w \in {"Node ${index + 1} should have a \"position\" property [x, y]"} :
                    \E i \in indexes : \/ ~Truthy(Get(nodes.v[i], "position"))
                                       \/ ~IsArray(Get(nodes.v[i], "position"))}
            \cup {w \in {"Workflow should have a \"connections\" object (can be empty {})"} :
                    \/ ~Truthy(Get(workflow, "connections"))
                    \/ Get(workflow, "connections").t \notin {"object", "array"}}
            \cup {w \in {"API validation available - workflow structure looks valid for API submission"} :
                    Truthy(cfg) /\ Truthy(Get(cfg, "apiKey"))}
    IN  Report("**Workflow Validation Result:**", errors, warnings)

validateN8nWorkflow ==
    \/ /\ pc = "idle"
       /\ \E userId \in UserIds, workflow \in ValidatedWorkflows :
            /\ op' = "validateN8nWorkflow"
            /\ args' = [userId |-> userId, workflow |-> workflow]
            /\ IF ~Truthy(workflow) \/ workflow.t \notin {"object", "array"}
               THEN Return(Text("Error: Workflow configuration is required and must be an object.", <<>>))
               ELSE IF validateN8nWorkflowRaises(workflow)
               THEN Raise
               ELSE IF Truthy(userId)
               THEN /\ pc' = "config"
                    /\ awaiting' = "getN8nConfig"
                    /\ UNCHANGED result
               ELSE Return(validateN8nWorkflowText(workflow, Undefined))
       /\ UNCHANGED <<config, data, response, local, calls, lookups, ext>>
    \/ /\ pc = "config" /\ awaiting = "none" /\ op = "validateN8nWorkflow"
       /\ Return(validateN8nWorkflowText(args.workflow, config))
       /\ UNCHANGED <<op, args, config, data, response, local, calls, lookups, ext>>

----------------------------------------------------------------------------
(* Trigger detection *)

triggerNodeTypes ==
    [webhook |-> "n8n-nodes-base.webhook",
     form |-> "n8n-nodes-base.formTrigger",
     schedule |-> "n8n-nodes-base.scheduleTrigger",
     chat |-> "n8n-nodes-base.chatTrigger",
     manual |-> "n8n-nodes-base.manualTrigger"]

\* Object.keys(triggerNodeTypes).includes(node.type)
IsTriggerNode(node) ==
    /\ Get(node, "type").t = "string"
    /\ \E k \in DOMAIN triggerNodeTypes : triggerNodeTypes[k] = Get(node, "type").v

\* index of the node nodes.find(pred) returns, 0 when there is none
FindIndex(nodes, pred(_)) ==
    IF \E i \in 1..Len(nodes) : pred(nodes[i])
    THEN CHOOSE i \in 1..Len(nodes) : pred(nodes[i]) /\ \A j \in 1..(i - 1) : ~pred(nodes[j])
    ELSE 0

\* nodes.find(node => ... node.type ...) raises when it visits a null entry,
\* that is when one stands before the first match
FindRaises(nodes, pred(_)) ==
    \E i \in 1..Len(nodes) :
        /\ Nullish(nodes[i])
        /\ \A j \in 1..(i - 1) : ~pred(nodes[j])

detectWorkflowTriggerRaises(wf) ==
    /\ Truthy(Get(wf, "nodes"))
    /\ IsArray(Get(wf, "nodes"))
    /\ FindRaises(Get(wf, "nodes").v, LAMBDA n : ~Nullish(n) /\ IsTriggerNode(n))

\* the webhook path mutated: the path prefix is read before the direct path
WebhookPathPrefixFirst(parameters) ==
    Or(Opt(parameters, "pathPrefix"),
    Or(Opt(parameters, "path"),
    Or(Opt(Opt(parameters, "options"), "path"), Str(""))))

\* parameters?.path || parameters?.pathPrefix || parameters?.options?.path || ''
WebhookPath(parameters) ==
    Or(Opt(parameters, "path"),
    Or(Opt(parameters, "pathPrefix"),
    Or(Opt(Opt(parameters, "options"), "path"), Str(""))))

\* the form identifier mutated: the workflow's webhookId is looked at before
\* the node's
FormIdWorkflowFirst(triggerNode, wf) ==
    LET parameters == Get(triggerNode, "parameters")
    IN  Or(Opt(parameters, "formId"),
        Or(Opt(parameters, "id"),
        Or(Get(wf, "webhookId"),
        Or(Opt(Get(wf, "settings"), "formId"),
        Or(Opt(Get(wf, "staticData"), "formId"),
        Or(Get(triggerNode, "webhookId"), Get(wf, "id")))))))

\* the form identifier of a form trigger node: the first truthy value of the
\* seven places, the workflow id last
FormId(triggerNode, wf) ==
    LET parameters == Get(triggerNode, "parameters")
    IN  Or(Opt(parameters, "formId"),
        Or(Opt(parameters, "id"),
        Or(Get(triggerNode, "webhookId"),
        Or(Opt(Get(wf, "settings"), "formId"),
        Or(Opt(Get(wf, "staticData"), "formId"),
        Or(Get(wf, "webhookId"), Get(wf, "id")))))))

\* the trigger of a workflow: type, node, addressing path, HTTP method
detectWorkflowTrigger(wf) ==
    LET nodes == Get(wf, "nodes")
        i == IF Truthy(nodes) /\ IsArray(nodes)
             THEN FindIndex(nodes.v, LAMBDA n : ~Nullish(n) /\ IsTriggerNode(n))
             ELSE 0
    IN  IF i = 0
        THEN [type |-> "unknown", node |-> Null, path |-> Undefined, httpMethod |-> Undefined]
        ELSE LET triggerNode == nodes.v[i]
                 triggerType == CHOOSE k \in DOMAIN triggerNodeTypes :
                                    triggerNodeTypes[k] = Get(triggerNode, "type").v
                 parameters == Get(triggerNode, "parameters")
             IN  [type |-> triggerType,
                  node |-> triggerNode,
                  path |->
                      IF triggerType = "webhook"
                      THEN WebhookPath(parameters)
                      ELSE IF triggerType = "form"
                      THEN FormId(triggerNode, wf)
                      ELSE Null,
                  httpMethod |->
                      IF triggerType = "webhook"
                      THEN Or(Opt(parameters, "httpMethod"),
                           Or(Opt(Opt(parameters, "options"), "httpMethod"), Str("POST")))
                      ELSE Str("POST")]

----------------------------------------------------------------------------
(* Form fields *)

IsFormTrigger(node) == Get(node, "type") = Str("n8n-nodes-base.formTrigger")

\* values.map(field => ({fieldLabel, placeholder, requiredField, fieldType,
\* defaultValue, options}))
MapField(field) ==
    Obj([fieldLabel |-> Get(field, "fieldLabel"),
         placeholder |-> Get(field, "placeholder"),
         requiredField |-> Bool(Get(field, "requiredField") # Bool(FALSE)),
         fieldType |-> Or(Get(field, "fieldType"), Str("text")),
         defaultValue |-> Get(field, "defaultValue"),
         options |-> Or(Get(field, "options"), Or(Get(field, "values"), Arr(<<>>)))])

MapFields(values) == Arr([i \in 1..Len(values.v) |-> MapField(values.v[i])])

\* !formFields || formFields.length === 0
NoFields(formFields) == ~Truthy(formFields) \/ LengthIsZero(formFields)

\* the structured field list of a node, parameters.formFields.values
StructuredValues(node) == Opt(Opt(Opt(node, "parameters"), "formFields"), "values")

HasStructured(node) == Truthy(StructuredValues(node)) /\ IsArray(StructuredValues(node))

\* Object.keys(properties).map(key => ({fieldLabel: key, ...properties[key]}))
PropertyFields(properties) ==
    LET keys == IF properties.t = "object" THEN DOMAIN properties.v ELSE {}
        n == Cardinality(keys)
        order == CHOOSE f \in [1..n -> keys] : \A i, j \in 1..n : i # j => f[i] # f[j]
        schema(k) == properties.v[k]
        own(k) == IF schema(k).t = "object" THEN DOMAIN schema(k).v ELSE {}
    IN  Arr([i \in 1..n |->
               Obj([f \in {"fieldLabel"} \cup own(order[i]) |->
                      IF f \in own(order[i]) THEN schema(order[i]).v[f] ELSE Str(order[i])])])

\* extractFormFields raises when a structured list holds a null field or
\* when the search of activeVersion.nodes meets a null entry or no list
extractFormFieldsRaises(node, wf) ==
    LET parameters == Get(node, "parameters")
        first == IF HasStructured(node) THEN MapFields(StructuredValues(node)) ELSE Arr(<<>>)
        second == IF NoFields(first)
                  THEN Or(Opt(parameters, "fields"),
                       Or(Opt(Opt(parameters, "options"), "fields"),
                       Or(Opt(Opt(parameters, "schema"), "properties"),
                       Or(Opt(Opt(Opt(parameters, "schema"), "items"), "properties"),
                          Arr(<<>>)))))
                  ELSE first
        versionNodes == Get(Get(wf, "activeVersion"), "nodes")
    IN  \/ HasStructured(node) /\ \E f \in Elements(StructuredValues(node)) : Nullish(f)
        \/ /\ NoFields(second) /\ Truthy(Get(wf, "activeVersion")) /\ ~Nullish(versionNodes)
           /\ \/ ~IsArray(versionNodes)
              \/ FindRaises(versionNodes.v, LAMBDA n : ~Nullish(n) /\ IsFormTrigger(n))
              \/ LET i == FindIndex(versionNodes.v, LAMBDA n : ~Nullish(n) /\ IsFormTrigger(n))
                 IN  /\ i # 0
                     /\ HasStructured(versionNodes.v[i])
                     /\ \E f \in Elements(StructuredValues(versionNodes.v[i])) : Nullish(f)

\* the field declarations of a form trigger node
extractFormFields(node, wf) ==
    LET parameters == Get(node, "parameters")
        first == IF HasStructured(node) THEN MapFields(StructuredValues(node)) ELSE Arr(<<>>)
        second == IF NoFields(first)
                  THEN Or(Opt(parameters, "fields"),
                       Or(Opt(Opt(parameters, "options"), "fields"),
                       Or(Opt(Opt(parameters, "schema"), "properties"),
                       Or(Opt(Opt(Opt(parameters, "schema"), "items"), "properties"),
                          Arr(<<>>)))))
                  ELSE first
        versionNodes == Opt(Get(wf, "activeVersion"), "nodes")
        i == IF IsArray(versionNodes)
             THEN FindIndex(versionNodes.v, LAMBDA n : ~Nullish(n) /\ IsFormTrigger(n))
             ELSE 0
        third == IF NoFields(second) /\ Truthy(Get(wf, "activeVersion")) /\ i # 0
                 THEN LET t == versionNodes.v[i]
                          p == Get(t, "parameters")
                      IN  IF HasStructured(t) THEN MapFields(StructuredValues(t))
                          ELSE Or(Opt(p, "fields"),
                               Or(Opt(Opt(p, "options"), "fields"),
                               Or(Opt(p, "formFields"),
                               Or(Opt(Opt(p, "schema"), "properties"), Arr(<<>>)))))
                 ELSE second
        properties == Get(Get(parameters, "schema"), "properties")
    IN  LET fourth == IF /\ NoFields(third) /\ Truthy(parameters)
                         /\ Truthy(Get(parameters, "schema"))
                         /\ Get(parameters, "schema").t \in {"object", "array"}
                         /\ Truthy(properties)
                      THEN PropertyFields(properties)
                      ELSE third
        IN  IF IsArray(fourth) THEN fourth ELSE Arr(<<>>)

\* field.toLowerCase(), for the labels and types the inputs use
ToLowerCase(x) ==
    IF x.v = "Name" THEN Str("name")
    ELSE IF x.v = "Email" THEN Str("email")
    ELSE Str(x.v)

\* label.includes(word), for the labels the inputs use
LabelIncludes(label, word) ==
    \/ label = word
    \/ label = "your name" /\ word = "name"
    \/ label = "form name" /\ word \in {"form", "name"}
    \/ label = "workflow title" /\ word \in {"workflow", "title"}

\* the value synthesized for a text field from its label
TextDefault(fieldLabel, placeholder, wf) ==
    IF LabelIncludes(fieldLabel, "name") \/ LabelIncludes(fieldLabel, "title")
    THEN IF \/ LabelIncludes(fieldLabel, "form") \/ LabelIncludes(fieldLabel, "google form")
            \/ LabelIncludes(ToLowerCase(placeholder).v, "form")
         THEN Str("Form created via n8n MCP - ${new Date().toLocaleString()}")
         ELSE IF LabelIncludes(fieldLabel, "workflow")
         THEN Or(Get(wf, "name"), Str("n8n Workflow"))
         ELSE Or(placeholder, Str("John Doe"))
    ELSE IF LabelIncludes(fieldLabel, "email")
    THEN Or(placeholder, Str("user@example.com"))
    ELSE IF LabelIncludes(fieldLabel, "company") \/ LabelIncludes(fieldLabel, "organization")
    THEN Or(placeholder, Str("Acme Corporation"))
    ELSE IF \/ LabelIncludes(fieldLabel, "message") \/ LabelIncludes(fieldLabel, "comment")
            \/ LabelIncludes(fieldLabel, "description")
    THEN Or(placeholder, Str("Automated submission from n8n MCP integration for workflow: ${name}"))
    ELSE IF LabelIncludes(fieldLabel, "subject") \/ LabelIncludes(fieldLabel, "topic")
    THEN Or(placeholder, Str("Form Submission - ${name}"))
    ELSE Or(placeholder, Str("Sample text"))

\* options[0].value || options[0].label || options[0]
FirstOption(options, withLabel) ==
    LET o == options.v[1]
    IN  IF withLabel THEN Or(Get(o, "value"), Or(Get(o, "label"), o))
        ELSE Or(Get(o, "value"), o)

NonEmptyList(x) == IsArray(x) /\ x.v # <<>>

\* the label and type of a field as generateDefaultFormData reads them
FieldType(field) == Or(Get(field, "fieldType"), Or(Get(field, "type"), Str("text")))

FieldLabel(field) ==
    Or(Get(field, "fieldLabel"), Or(Get(field, "label"),
    Or(Get(field, "title"), Or(Get(field, "description"), Str("")))))

\* the loop over the fields raises on a null field, on a label or type that
\* has no toLowerCase and on a null first option
FieldRaises(field) ==
    \/ Nullish(field)
    \/ FieldLabel(field).t # "string"
    \/ /\ Nullish(Get(field, "defaultValue")) /\ Nullish(Get(field, "default"))
       /\ \/ FieldType(field).t # "string"
          \/ /\ FieldType(field).v \in {"select", "dropdown", "multiselect"}
             /\ \/ NonEmptyList(Get(field, "options")) /\ Nullish(Get(field, "options").v[1])
                \/ /\ ~NonEmptyList(Get(field, "options"))
                   /\ NonEmptyList(Get(field, "values")) /\ Nullish(Get(field, "values").v[1])

\* field.min || 1
NumberDefault(field) == Or(Get(field, "min"), Num(1))

\* the value generateDefaultFormData gives a field
FieldDefault(field, wf) ==
    LET fieldType == ToLowerCase(FieldType(field)).v
        fieldLabel == ToLowerCase(FieldLabel(field)).v
        placeholder == Or(Get(field, "placeholder"), Str(""))
    IN  IF ~Nullish(Get(field, "defaultValue")) THEN Get(field, "defaultValue")
        ELSE IF ~Nullish(Get(field, "default")) THEN Get(field, "default")
        ELSE CASE fieldType \in {"text", "string"} -> TextDefault(fieldLabel, placeholder, wf)
               [] fieldType = "textarea" ->
                    Or(placeholder, Str("Automated form submission from n8n MCP integration."))
               [] fieldType = "email" -> Or(placeholder, Str("user@example.com"))
               [] fieldType \in {"number", "integer"} -> NumberDefault(field)
               [] fieldType \in {"boolean", "checkbox"} -> Bool(TRUE)
               [] fieldType = "date" -> Str("${new Date().toISOString().split('T')[0]}")
               [] fieldType \in {"select", "dropdown"} ->
                    IF Truthy(Get(field, "options")) /\ NonEmptyList(Get(field, "options"))
                    THEN FirstOption(Get(field, "options"), TRUE)
                    ELSE IF Truthy(Get(field, "values")) /\ NonEmptyList(Get(field, "values"))
                    THEN FirstOption(Get(field, "values"), TRUE)
                    ELSE Or(placeholder, Str(""))
               [] fieldType = "multiselect" ->
                    IF NonEmptyList(Get(field, "options"))
                    THEN Arr(<<FirstOption(Get(field, "options"), FALSE)>>)
                    ELSE IF NonEmptyList(Get(field, "values"))
                    THEN Arr(<<FirstOption(Get(field, "values"), FALSE)>>)
                    ELSE Arr(<<>>)
               [] OTHER -> Or(placeholder, Str("Default value"))

FieldKey(index) == "field-" \o ToString(index)

generateDefaultFormDataRaises(node, wf) ==
    \/ extractFormFieldsRaises(node, wf)
    \/ \E f \in Elements(extractFormFields(node, wf)) : FieldRaises(f)

\* the defaults of a form: one positional key per declared field, or the
\* two-key fallback when no field is declared
generateDefaultFormData(node, wf) ==
    LET formFields == extractFormFields(node, wf).v
    IN  IF Len(formFields) > 0
        THEN Obj([k \in {FieldKey(i - 1) : i \in 1..Len(formFields)} |->
                    LET i == CHOOSE j \in 1..Len(formFields) : FieldKey(j - 1) = k
                    IN  FieldDefault(formFields[i], wf)])
        ELSE Obj([message |-> Str("Form submitted via n8n MCP integration for workflow: ${name}"),
                  timestamp |-> Str("${new Date().toISOString()}")])

\* Object.keys(x)
Keys(x) ==
    IF x.t = "object" THEN DOMAIN x.v
    ELSE IF x.t = "array" THEN {ToString(i - 1) : i \in 1..Len(x.v)}
    ELSE {}

\* x[key]
At(x, k) ==
    IF x.t = "object" THEN Get(x, k)
    ELSE IF x.t = "array" /\ k \in Keys(x)
    THEN x.v[CHOOSE i \in 1..Len(x.v) : ToString(i - 1) = k]
    ELSE Undefined

\* value !== null && value !== undefined && value !== ''
Provided(value) == ~Nullish(value) /\ value # Str("")

\* the merge mutated: an empty string of the caller overrides the default
MergeFormDataKeepsEmpty(defaultFormData, inputData) ==
    IF Truthy(inputData) /\ inputData.t \in {"object", "array"} /\ Keys(inputData) # {}
    THEN Obj([k \in Keys(defaultFormData) \cup {j \in Keys(inputData) : ~Nullish(At(inputData, j))} |->
                IF k \in Keys(inputData) /\ ~Nullish(At(inputData, k))
                THEN At(inputData, k)
                ELSE Get(defaultFormData, k)])
    ELSE defaultFormData

\* formData: the caller's input merged over the defaults
MergeFormData(defaultFormData, inputData) ==
    IF Truthy(inputData) /\ inputData.t \in {"object", "array"} /\ Keys(inputData) # {}
    THEN Obj([k \in Keys(defaultFormData) \cup {j \in Keys(inputData) : Provided(At(inputData, j))} |->
                IF k \in Keys(inputData) /\ Provided(At(inputData, k))
                THEN At(inputData, k)
                ELSE Get(defaultFormData, k)])
    ELSE defaultFormData

----------------------------------------------------------------------------
(* Workflow execution *)

\* the activity test mutated: only an explicit false counts as inactive
IsActiveUnlessFalse(wf) == Get(wf, "active") # Bool(FALSE)

\* workflowData.active
IsActive(wf) == Truthy(Get(wf, "active"))

\* the search of activeVersion.nodes for a form trigger raises on a null
\* entry and on nodes that are not a list
SubstitutionRaises(wf) ==
    LET versionNodes == Get(Get(wf, "activeVersion"), "nodes")
    IN  /\ ~Nullish(versionNodes)
        /\ \/ ~IsArray(versionNodes)
           \/ FindRaises(versionNodes.v, LAMBDA n : ~Nullish(n) /\ IsFormTrigger(n))

\* for a form trigger the node of the published version replaces the
\* workflow's own when that one has no parameters.fields
Substitute(trigger, wf) ==
    LET versionNodes == Opt(Get(wf, "activeVersion"), "nodes")
        i == IF IsArray(versionNodes)
             THEN FindIndex(versionNodes.v, LAMBDA n : ~Nullish(n) /\ IsFormTrigger(n))
             ELSE 0
        fields == Opt(Get(trigger.node, "parameters"), "fields")
    IN  IF /\ trigger.type = "form" /\ Truthy(Get(wf, "activeVersion")) /\ i # 0
           /\ (~Truthy(fields) \/ LengthIsZero(fields))
        THEN [trigger EXCEPT !.node = versionNodes.v[i]]
        ELSE trigger

\* the host the trigger URLs are built on
baseUrl(cfg) ==
    IF Truthy(Get(cfg, "apiBaseUrl")) THEN Origin(Get(cfg, "apiBaseUrl").v) ELSE N8N_API_BASE_URL

\* inputData ? (Array.isArray(inputData) ? inputData : [inputData]) : null
requestBody(inputData) ==
    IF Truthy(inputData) THEN (IF IsArray(inputData) THEN inputData ELSE Arr(<<inputData>>))
    ELSE Null

\* if (trigger.type === 'webhook' && trigger.path)
WebhookDispatch(trigger) == trigger.type = "webhook" /\ Truthy(trigger.path)

\* the webhook call mutated: the API key is sent along
WebhookCallWithKey(cfg, trigger, inputData) ==
    IF Or(trigger.httpMethod, Str("POST")) = Str("GET")
    THEN Direct(<<baseUrl(cfg), "webhook", Seg(trigger.path)>>, "GET", Get(cfg, "apiKey"),
                requestBody(inputData), Undefined)
    ELSE Direct(<<baseUrl(cfg), "webhook", Seg(trigger.path)>>, "POST", Get(cfg, "apiKey"),
                Undefined, requestBody(inputData))

\* the webhook call: axios.get with the body as query for GET, axios.post
\* for every other declared method
WebhookCall(cfg, trigger, inputData) ==
    IF Or(trigger.httpMethod, Str("POST")) = Str("GET")
    THEN Direct(<<baseUrl(cfg), "webhook", Seg(trigger.path)>>, "GET", Undefined,
                requestBody(inputData), Undefined)
    ELSE Direct(<<baseUrl(cfg), "webhook", Seg(trigger.path)>>, "POST", Undefined,
                Undefined, requestBody(inputData))

\* runPayload.workflowData
RunWorkflowData(wf) ==
    Obj([name |-> Get(wf, "name"),
         nodes |-> Or(Get(wf, "nodes"), Arr(<<>>)),
         active |-> Get(wf, "active"),
         versionId |-> Or(Get(wf, "versionId"), Get(wf, "activeVersionId")),
         id |-> Get(wf, "id")])

restRunUrl(cfg, workflowId) == <<baseUrl(cfg), "rest", "workflows", Seg(workflowId), "run">>

\* the run-endpoint call of the form dispatch
FormRunCall(cfg, workflowId, wf, trigger, formData) ==
    Direct(restRunUrl(cfg, workflowId), "POST", Get(cfg, "apiKey"), Undefined,
           Obj([workflowData |-> RunWorkflowData(wf),
                triggerToStartFrom |-> Obj([name |-> Or(Opt(trigger.node, "name"),
                                                        Str("On form submission"))]),
                data |-> IF IsArray(formData) THEN formData ELSE Arr(<<formData>>)]))

\* a value as a multipart field: JSON.stringify(value) for lists and
\* objects, String(value) for the rest
FormValue(value) ==
    IF value.t \in {"array", "object"}
    THEN [t |-> "string", v |-> "${JSON.stringify(value)}", json |-> value]
    ELSE String(value)

\* the multipart submission: null and undefined values are left out
FormSubmitCall(cfg, trigger, formData) ==
    Direct(<<baseUrl(cfg), "form", Seg(trigger.path)>>, "POST", Undefined, Undefined,
           Obj([k \in {j \in Keys(formData) : ~Nullish(Get(formData, j))} |->
                  FormValue(Get(formData, k))]))

\* runPayload.data of the schedule, chat and manual dispatch
RunData(trigger, inputData) ==
    IF Truthy(inputData)
    THEN IF trigger.type = "chat"
         THEN Arr(<<IF inputData.t = "string"
                    THEN Obj([message |-> inputData, chatInput |-> inputData])
                    ELSE inputData>>)
         ELSE IF IsArray(inputData) THEN inputData ELSE Arr(<<inputData>>)
    ELSE IF trigger.type = "chat"
    THEN Arr(<<Obj([message |-> Str("Workflow triggered via n8n MCP"),
                    chatInput |-> Str("Workflow triggered via n8n MCP")])>>)
    ELSE Undefined

RunCall(cfg, workflowId, wf, trigger, inputData) ==
    Direct(restRunUrl(cfg, workflowId), "POST", Get(cfg, "apiKey"), Undefined,
           Obj([workflowData |-> RunWorkflowData(wf),
                triggerToStartFrom |-> IF Truthy(trigger.node)
                                       THEN Obj([name |-> Or(Get(trigger.node, "name"), Str("Trigger"))])
                                       ELSE Undefined,
                data |-> RunData(trigger, inputData)]))

\* the fallback mutated: the run endpoint is called a second time
ExecuteCallRunsAgain(cfg, workflowId, wf, inputData) ==
    Direct(restRunUrl(cfg, workflowId), "POST", Get(cfg, "apiKey"), Undefined,
           Obj([data |-> requestBody(inputData)]))

\* the fallback of the schedule, chat and manual dispatch
ExecuteCall(cfg, workflowId, wf, inputData) ==
    Request(<<"workflows", Seg(workflowId), "execute">>, Get(cfg, "apiKey"), Null,
            Obj([f \in {g \in {"versionId"} : Truthy(Get(wf, "activeVersionId"))}
                       \cup {g \in {"data"} : Truthy(inputData)} |->
                   IF f = "versionId" THEN Get(wf, "activeVersionId")
                   ELSE requestBody(inputData)]),
            "POST", Get(cfg, "apiBaseUrl"))

\* the form preconditions mutated: the publication of the workflow is not
\* looked at
FormRefusalUnpublished(detected, wf) ==
    IF detected.type # "form" THEN Null
    ELSE IF ~Truthy(detected.node)
    THEN Text("Error: Workflow \"${name}\" has a form trigger but the trigger node configuration could not be found. Please check the workflow configuration in n8n.", <<>>)
    ELSE IF ~Truthy(detected.path)
    THEN Text("Error: Workflow \"${name}\" form trigger is missing a form ID/path. Please check the form trigger configuration in n8n.", <<>>)
    ELSE Null

\* the preconditions of a form trigger: the error returned when one fails,
\* null when all hold or the trigger is no form trigger
FormRefusal(detected, wf) ==
    IF detected.type # "form" THEN Null
    ELSE IF ~Truthy(Get(wf, "activeVersionId"))
    THEN Text("Error: Workflow \"${name}\" is active but not published. Form workflows must be published to accept form submissions. Please publish the workflow in n8n.", <<>>)
    ELSE IF ~Truthy(detected.node)
    THEN Text("Error: Workflow \"${name}\" has a form trigger but the trigger node configuration could not be found. Please check the workflow configuration in n8n.", <<>>)
    ELSE IF ~Truthy(detected.path)
    THEN Text("Error: Workflow \"${name}\" form trigger is missing a form ID/path. Please check the form trigger configuration in n8n.", <<>>)
    ELSE Null

\* from the fetched workflow to the first trigger call or an early return
Dispatch ==
    /\ pc = "request" /\ awaiting = "none" /\ op = "executeN8nWorkflow"
    /\ LET wf == data
           detected == detectWorkflowTrigger(wf)
           trigger == Substitute(detected, wf)
           formData == MergeFormData(generateDefaultFormData(trigger.node, wf), args.inputData)
       IN  IF ~Truthy(wf)
           THEN /\ Return(Text("Error: Failed to retrieve workflow ${workflowId}. Please check if the workflow ID is correct.", <<>>))
                /\ UNCHANGED <<local, calls>>
           ELSE IF ~IsActive(wf)
           THEN /\ Return(Text("Error: Workflow \"${name}\" is not active. Please activate the workflow first using the activate_n8n_workflow tool.", <<>>))
                /\ local' = [workflowData |-> wf]
                /\ UNCHANGED calls
           ELSE IF detectWorkflowTriggerRaises(wf)
           THEN Raise /\ local' = [workflowData |-> wf] /\ UNCHANGED calls
           ELSE IF FormRefusal(detected, wf) # Null
           THEN /\ Return(FormRefusal(detected, wf))
                /\ local' = [workflowData |-> wf, trigger |-> detected]
                /\ UNCHANGED calls
           ELSE IF detected.type = "form" /\ Truthy(Get(wf, "activeVersion")) /\ SubstitutionRaises(wf)
           THEN Raise /\ local' = [workflowData |-> wf, trigger |-> detected] /\ UNCHANGED calls
           ELSE /\ local' = [workflowData |-> wf, trigger |-> trigger]
                /\ IF WebhookDispatch(trigger)
                   THEN SendDirect(WebhookCall(config, trigger, args.inputData), "webhook")
                   ELSE IF trigger.type = "form" /\ Truthy(trigger.path)
                   THEN IF generateDefaultFormDataRaises(trigger.node, wf)
                        THEN /\ Return(Text("Error triggering form workflow: ${errorMessage}", <<"silent on published">>))
                             /\ UNCHANGED calls
                        ELSE SendDirect(FormRunCall(config, args.workflowId, wf, trigger, formData),
                                        "formRun")
                   ELSE IF trigger.type \in {"schedule", "chat", "manual"}
                   THEN SendDirect(RunCall(config, args.workflowId, wf, trigger, args.inputData), "run")
                   ELSE /\ Return(Text("Error: Workflow \"${name}\" has an unsupported trigger type (${trigger.type}). Supported triggers: webhook, form, schedule, chat, manual.", <<trigger.type>>))
                        /\ UNCHANGED calls
    /\ UNCHANGED <<op, args, config, data, response, lookups, ext>>

\* the webhook call has been answered
WebhookAnswered ==
    /\ pc = "webhook" /\ awaiting = "none"
    /\ IF AxiosRejects(response)
       THEN Return(Text("Error triggering webhook workflow: ${message}", <<>>))
       ELSE Return(Text("**Webhook Workflow Triggered Successfully:**", <<>>))
    /\ UNCHANGED <<op, args, config, data, response, local, calls, lookups, ext>>

\* the run-endpoint call of the form dispatch has been answered: a 200 ends
\* the operation, everything else falls through to the form URL
FormRunAnswered ==
    /\ pc = "formRun" /\ awaiting = "none"
    /\ IF ~AxiosRejects(response) /\ response.status = 200
       THEN /\ Return(Text("**Form Workflow Executed Successfully:**", <<>>))
            /\ UNCHANGED calls
       ELSE SendDirect(FormSubmitCall(config, local.trigger,
                           MergeFormData(generateDefaultFormData(local.trigger.node, local.workflowData),
                                         args.inputData)),
                       "formSubmit")
    /\ UNCHANGED <<op, args, config, data, response, local, lookups, ext>>

\* response.data?.message || response.data?.error || `HTTP ${response.status}`
FormErrorMsg(o) ==
    Or(Opt(o.data, "message"), Or(Opt(o.data, "error"), Str("HTTP ${response.status}")))

\* the error text states the published version only for these messages
StatesPublished(msg) ==
    /\ msg.t = "string"
    /\ Includes(msg.v, "could not be started") \/ Includes(msg.v, "Workflow Form Error")

\* the form submission has been answered; validateStatus lets every status
\* below 600 through
FormSubmitAnswered ==
    /\ pc = "formSubmit" /\ awaiting = "none"
    /\ IF response.kind # "response"
       THEN Return(Text("Error triggering form workflow: ${errorMessage}", <<"silent on published">>))
       ELSE IF response.status >= 400
       THEN Return(Text("Error triggering form workflow: ${errorMessage}",
                        <<IF StatesPublished(FormErrorMsg(response))
                          THEN "states published" ELSE "silent on published">>))
       ELSE Return(Text("**Form Workflow Triggered Successfully:**", <<>>))
    /\ UNCHANGED <<op, args, config, data, response, local, calls, lookups, ext>>

\* the run-endpoint call of the schedule, chat and manual dispatch has been
\* answered: a rejection falls back to the execute endpoint
RunAnswered ==
    /\ pc = "run" /\ awaiting = "none"
    /\ IF AxiosRejects(response)
       THEN Send(ExecuteCall(config, args.workflowId, local.workflowData, args.inputData), "execute")
       ELSE IF response.status = 200
       THEN Return(Text("**Workflow Execution Started:**", <<"run">>)) /\ UNCHANGED calls
       ELSE /\ Return(Text("Error: Workflow execution returned status ${runResponse.status}. Response: ${...}", <<>>))
            /\ UNCHANGED calls
    /\ UNCHANGED <<op, args, config, data, response, local, lookups, ext>>

\* the execute-endpoint call has been answered
ExecuteAnswered ==
    /\ pc = "execute" /\ awaiting = "none"
    /\ IF ~Truthy(data)
       THEN Return(Text("Failed to execute workflow: ${workflowId}. Please ensure the workflow is active and has a valid version.", <<>>))
       ELSE Return(Text("**Workflow Execution Started:**", <<"execute">>))
    /\ UNCHANGED <<op, args, config, data, response, local, calls, lookups, ext>>

executeN8nWorkflow ==
    \/ \E userId \in UserIds, inputData \in InputData :
         Call("executeN8nWorkflow",
              [userId |-> userId, workflowId |-> Str("w1"), inputData |-> inputData])
    \/ Configured("executeN8nWorkflow",
                  Request(<<"workflows", Seg(args.workflowId)>>, ApiKey, Null, Null, "GET", ApiBaseUrl))
    \/ Dispatch
    \/ WebhookAnswered
    \/ FormRunAnswered
    \/ FormSubmitAnswered
    \/ RunAnswered
    \/ ExecuteAnswered

----------------------------------------------------------------------------

Next ==
    \/ ResolveConfig
    \/ ResolveRequest
    \/ Returned
    \/ makeN8nRequest
    \/ getN8nConfig
    \/ getN8nApiKey
    \/ listN8nWorkflows
    \/ getN8nWorkflow
    \/ updateN8nWorkflow
    \/ deleteN8nWorkflow
    \/ activateN8nWorkflow
    \/ deactivateN8nWorkflow
    \/ createN8nWorkflow
    \/ listN8nExecutions
    \/ getN8nExecution
    \/ listN8nCredentials
    \/ getN8nCredential
    \/ getN8nUserInfo
    \/ listN8nWebhooks
    \/ listN8nTags
    \/ createN8nTag
    \/ ResolveAxios
    \/ getN8nToolsDocumentation
    \/ searchN8nNodes
    \/ getN8nNode
    \/ searchN8nTemplates
    \/ getN8nTemplate
    \/ validateN8nNode
    \/ validateN8nWorkflow
    \/ executeN8nWorkflow

Spec == Init /\ [][Next]_vars

----------------------------------------------------------------------------
(* The functions of the module, applied on their own *)

\* parameters of a webhook node: the three places of the path and the two
\* places of the method, each absent, empty or set
WebhookParameters ==
    {Obj([path |-> p, pathPrefix |-> q, options |-> o, httpMethod |-> m]) :
        p \in {Undefined, Str(""), Str("abc")},
        q \in {Undefined, Str(""), Str("pre")},
        o \in {Undefined,
               Obj([path |-> Str("opt")]),
               Obj([path |-> Str(""), httpMethod |-> Str("GET")]),
               Obj([path |-> Str("opt"), httpMethod |-> Str("GET")])},
        m \in {Undefined, Str("PUT")}}
    \cup {Undefined, Obj([path |-> Str("abc")])}

\* a place that may hold an identifier: unset, empty, or set
Place(v) == {Undefined, Str(""), Str(v)}

\* workflows whose only node is a form trigger, every combination of the
\* seven places of the form identifier
FormIdInputs ==
    {Obj([id |-> w, webhookId |-> h,
          settings |-> Obj([formId |-> s]), staticData |-> Obj([formId |-> d]),
          nodes |-> Arr(<<Obj([type |-> Str("n8n-nodes-base.formTrigger"), name |-> Str("Form"),
                               webhookId |-> n,
                               parameters |-> Obj([formId |-> f, id |-> i])])>>)]) :
        f \in Place("p-formId"), i \in Place("p-id"), n \in Place("n-webhookId"),
        s \in Place("s-formId"), d \in Place("d-formId"), h \in Place("w-webhookId"),
        w \in Place("w1")}
    \cup {Obj([id |-> Str("w1"), settings |-> Null,
               nodes |-> Arr(<<Obj([type |-> Str("n8n-nodes-base.formTrigger"),
                                    name |-> Str("Form")])>>)])}

DetectInputs ==
    {Obj([id |-> Str("w1"), nodes |-> Arr(<<Node("n8n-nodes-base.webhook", "Webhook", p)>>)]) :
        p \in WebhookParameters}
    \cup FormIdInputs

\* detectWorkflowTrigger(workflowData)
DetectTrigger ==
    /\ pc = "idle"
    /\ \E wf \in DetectInputs :
         /\ op' = "detectWorkflowTrigger"
         /\ args' = [workflowData |-> wf]
         /\ IF detectWorkflowTriggerRaises(wf)
            THEN Raise
            ELSE Return(detectWorkflowTrigger(wf))
    /\ UNCHANGED <<config, data, response, local, calls, lookups, ext>>

\* one declared field: every combination of type, label, placeholder,
\* options and default
Fields ==
    {Obj([fieldType |-> t, fieldLabel |-> l, placeholder |-> h, options |-> o,
          defaultValue |-> d]) :
        t \in {Undefined, Str("text"), Str("textarea"), Str("email"), Str("number"),
               Str("checkbox"), Str("date"), Str("select"), Str("multiselect"), Str("file")},
        l \in {Undefined, Str("Name"), Str("Email"), Num(42)},
        h \in {Undefined, Str("p")},
        o \in {Undefined, Arr(<<Obj([value |-> Str("a")])>>), Arr(<<Str("a")>>), Arr(<<Null>>)},
        d \in {Undefined, Null, Str("d")}}

\* declared minimums of a number field: none, zero, positive, negative
Minimums == {Undefined, Num(0), Num(5), Num(-2)}

FormNode(parameters) ==
    Obj([type |-> Str("n8n-nodes-base.formTrigger"), name |-> Str("Form"),
         webhookId |-> Str("form-1"), parameters |-> parameters])

\* form trigger nodes: one structured field, the three fields text, email
\* and number, a plain field list, fields declared as schema properties,
\* no field at all
FieldNodes ==
    {FormNode(Obj([formFields |-> Obj([values |-> Arr(<<f>>)])])) : f \in Fields}
    \cup {FormNode(Obj([formFields |-> Obj([values |->
                Arr(<<Obj([fieldLabel |-> Str("Name"), fieldType |-> Str("text")]),
                      Obj([fieldLabel |-> Str("Email"), fieldType |-> Str("email")]),
                      Obj([fieldLabel |-> Str("Age"), fieldType |-> Str("number")])>>)])])),
           FormNode(Obj([fields |->
                Arr(<<Obj([label |-> Str("Name"), type |-> Str("string")]),
                      Obj([type |-> Str("integer"), min |-> Num(0)])>>)])),
           FormNode(Obj([schema |-> Obj([properties |->
                Obj([email |-> Obj([type |-> Str("string")])])])])),
           FormNode(Obj([formFields |-> Obj([values |-> Arr(<<>>)])])),
           FormNode(Undefined)}
    \cup {FormNode(Obj([fields |-> Arr(<<Obj([label |-> Str("Count"), type |-> t, min |-> m])>>)])) :
            t \in {Str("number"), Str("integer")}, m \in Minimums}

\* form trigger nodes that declare fields in any combination of the
\* structured list, the flat list, the nested list and the schema properties
SourceNodes ==
    {FormNode(Obj([formFields |-> v, fields |-> f, options |-> o, schema |-> c])) :
        v \in {Undefined, Obj([values |-> Arr(<<>>)]),
               Obj([values |-> Arr(<<Obj([fieldLabel |-> Str("Name"), fieldType |-> Str("text")])>>)])},
        f \in {Undefined, Arr(<<>>),
               Arr(<<Obj([label |-> Str("Flat"), type |-> Str("string")]),
                     Obj([label |-> Str("Count"), type |-> Str("integer")])>>)},
        o \in {Undefined, Obj([fields |-> Arr(<<Obj([label |-> Str("Nested")])>>)])},
        c \in {Undefined,
               Obj([properties |-> Obj([email |-> Obj([type |-> Str("string")]),
                                        age |-> Obj([type |-> Str("integer")])])])}}

\* extractFormFields(formTriggerNode, workflowData)
ExtractFields ==
    /\ pc = "idle"
    /\ \E node \in SourceNodes, wf \in {Obj([id |-> Str("w1"), name |-> Str("wf")])} :
         /\ op' = "extractFormFields"
         /\ args' = [formTriggerNode |-> node, workflowData |-> wf]
         /\ IF extractFormFieldsRaises(node, wf)
            THEN Raise
            ELSE Return(extractFormFields(node, wf))
    /\ UNCHANGED <<config, data, response, local, calls, lookups, ext>>

\* generateDefaultFormData(formTriggerNode, workflowData)
SynthesizeDefaults ==
    /\ pc = "idle"
    /\ \E node \in FieldNodes, wf \in {Obj([id |-> Str("w1"), name |-> Str("wf")])} :
         /\ op' = "generateDefaultFormData"
         /\ args' = [formTriggerNode |-> node, workflowData |-> wf]
         /\ IF generateDefaultFormDataRaises(node, wf)
            THEN Raise
            ELSE Return(generateDefaultFormData(node, wf))
    /\ UNCHANGED <<config, data, response, local, calls, lookups, ext>>

\* synthesized defaults: two declared fields, and no declared field
DefaultForms ==
    {Obj([k \in {"field-0", "field-1"} |->
            IF k = "field-0" THEN Str("John Doe") ELSE Str("user@example.com")]),
     Obj([message |-> Str("Form submitted via n8n MCP integration for workflow: ${name}"),
          timestamp |-> Str("${new Date().toISOString()}")])}

\* what a caller passes as form input: any of three keys, each with a
\* value that is null, undefined, empty or set; no input; a string; a list
FormInputs ==
    {Obj([k \in K |-> f[k]]) :
        K \in SUBSET {"field-0", "field-1", "extra"},
        f \in [{"field-0", "field-1", "extra"} ->
                 {Null, Undefined, Str(""), Str("x"), Num(0)}]}
    \cup {Null, Undefined, Str("x"), Arr(<<Str("x"), Str("")>>)}

\* the merge of the caller's input over the defaults in the form dispatch
MergeFormInput ==
    /\ pc = "idle"
    /\ \E defaultFormData \in DefaultForms, inputData \in FormInputs :
         /\ op' = "mergeFormData"
         /\ args' = [defaultFormData |-> defaultFormData, inputData |-> inputData]
         /\ Return(MergeFormData(defaultFormData, inputData))
    /\ UNCHANGED <<config, data, response, local, calls, lookups, ext>>

\* nodes a caller passes to createN8nWorkflow: the required fields in
\* several types, the optional fields absent, null or set in several types
NormalizeInputs ==
    {Obj([type |-> t, name |-> Str("Set"), position |-> Arr(<<Num(1), Num(2)>>),
          typeVersion |-> v, id |-> i, disabled |-> b, maxTries |-> m, notes |-> n,
          parameters |-> p]) :
        t \in {Str("n8n-nodes-base.set"), Num(1), Bool(TRUE)},
        v \in {Undefined, Null, Num(2), Str("2"), Str("x")},
        i \in {Undefined, Null, Num(1), Str(" "), Str("a")},
        b \in {Undefined, Null, Num(0), Bool(TRUE), Str("x")},
        m \in {Undefined, Null, Num(2), Str("1"), Str("x")},
        n \in {Undefined, Null, Num(1), Str("n")},
        p \in {Undefined, Null, Obj([path |-> Str("abc")])}}
    \cup {GoodNode,
          Obj([type |-> Str("n8n-nodes-base.set"), name |-> Str("Set"),
               position |-> Arr(<<Str("1"), Num(2)>>)])}

\* the normalizer of createN8nWorkflow applied to a node that passed the
\* structure check
Normalize ==
    /\ pc = "idle"
    /\ \E node \in NormalizeInputs :
         /\ ~InvalidNode(node)
         /\ op' = "normalizeNode"
         /\ args' = [node |-> node]
         /\ local' = [passes |-> 1]
         /\ Return(NormalizeNode(node))
    /\ UNCHANGED <<config, data, response, calls, lookups, ext>>

\* the normalizer applied to its own output
NormalizeAgain ==
    /\ pc = "done" /\ op = "normalizeNode" /\ local.passes = 1
    /\ local' = [passes |-> 2, first |-> result]
    /\ Return(NormalizeNode(result))
    /\ UNCHANGED <<op, args, config, data, response, calls, lookups, ext>>

FunctionsNext ==
    \/ DetectTrigger
    \/ ExtractFields
    \/ SynthesizeDefaults
    \/ MergeFormInput
    \/ Normalize
    \/ NormalizeAgain
    \/ Returned

Functions == Init /\ [][FunctionsNext]_vars


----------------------------------------------------------------------------
(* Two calls in flight: one runs, the other is suspended at an await *)

\* the parameters and locals of the running call and what it awaits
Frame ==
    [pc |-> pc, awaiting |-> awaiting, op |-> op, args |-> args, config |-> config,
     data |-> data, response |-> response, local |-> local, calls |-> calls,
     lookups |-> lookups, result |-> result,
     findById |-> ext.findById, decryptedData |-> ext.decryptedData,
     via |-> ext.via, http |-> ext.http]

IdleFrame ==
    [pc |-> "idle", awaiting |-> "none", op |-> "none", args |-> NoArgs, config |-> Undefined,
     data |-> Undefined, response |-> Undefined, local |-> NoLocal, calls |-> <<>>,
     lookups |-> 0, result |-> NoResult,
     findById |-> "not called", decryptedData |-> "not called",
     via |-> "none", http |-> NoOutcome]

Other(call) == IF call = "a" THEN "b" ELSE "a"

ConcurrentInit ==
    /\ pc = "idle"
    /\ awaiting = "none"
    /\ op = "none"
    /\ args = NoArgs
    /\ config = Undefined
    /\ data = Undefined
    /\ response = Undefined
    /\ local = NoLocal
    /\ calls = <<>>
    /\ lookups = 0
    /\ result = NoResult
    /\ ext = [findById |-> "not called", decryptedData |-> "not called",
              via |-> "none", http |-> NoOutcome, running |-> "a", parked |-> IdleFrame]

\* the switch mutated: config is a binding of the module, not of the call,
\* so the call that resumes finds the config of the call that ran last
SwitchSharedConfig ==
    /\ awaiting # "none" \/ pc \in {"idle", "done", "thrown"}
    /\ pc' = ext.parked.pc
    /\ awaiting' = ext.parked.awaiting
    /\ op' = ext.parked.op
    /\ args' = ext.parked.args
    /\ config' = config
    /\ data' = ext.parked.data
    /\ response' = ext.parked.response
    /\ local' = ext.parked.local
    /\ calls' = ext.parked.calls
    /\ lookups' = ext.parked.lookups
    /\ result' = ext.parked.result
    /\ ext' = [findById |-> ext.parked.findById, decryptedData |-> ext.parked.decryptedData,
               via |-> ext.parked.via, http |-> ext.parked.http,
               running |-> Other(ext.running), parked |-> Frame]

\* the running call is suspended at an await (or has not started, or is
\* over) and the other call runs: each call finds its own parameters and
\* locals, which live in the call and not in the module
Switch ==
    /\ awaiting # "none" \/ pc \in {"idle", "done", "thrown"}
    /\ pc' = ext.parked.pc
    /\ awaiting' = ext.parked.awaiting
    /\ op' = ext.parked.op
    /\ args' = ext.parked.args
    /\ config' = ext.parked.config
    /\ data' = ext.parked.data
    /\ response' = ext.parked.response
    /\ local' = ext.parked.local
    /\ calls' = ext.parked.calls
    /\ lookups' = ext.parked.lookups
    /\ result' = ext.parked.result
    /\ ext' = [findById |-> ext.parked.findById, decryptedData |-> ext.parked.decryptedData,
               via |-> ext.parked.via, http |-> ext.parked.http,
               running |-> Other(ext.running), parked |-> Frame]

\* the caller of the running call has the value; nothing of the call is kept
Delivered ==
    /\ pc \in {"done", "thrown"}
    /\ pc' = "idle"
    /\ awaiting' = "none"
    /\ op' = "none"
    /\ args' = NoArgs
    /\ config' = Undefined
    /\ data' = Undefined
    /\ response' = Undefined
    /\ local' = NoLocal
    /\ calls' = <<>>
    /\ lookups' = 0
    /\ result' = NoResult
    /\ ext' = [ext EXCEPT !.findById = "not called", !.decryptedData = "not called",
                          !.via = "none", !.http = NoOutcome]

\* the workflows of the two users: a manual trigger, a webhook, one that is
\* not active
CalmBodies ==
    {Null, Obj([data |-> Obj([executionId |-> Str("e1")])])}
    \cup {Workflow(Str("w1"), Arr(<<n>>),
                   [active |-> a, activeVersionId |-> Undefined, activeVersion |-> Undefined]) :
            n \in {Node("n8n-nodes-base.manualTrigger", "Manual", Undefined),
                   Node("n8n-nodes-base.webhook", "Webhook", Obj([path |-> Str("abc")]))},
            a \in {Bool(TRUE), Bool(FALSE)}}

\* the two calls are made for the users u1 and u2, who have their own n8n
\* hosts, and the remote ends answer with few of their answers
NarrowWorld ==
    /\ op # "none" => (args.userId \in {Str("u1"), Str("u2")} /\ args.inputData = Null)
    /\ ext.findById # "throws"
    /\ ext.decryptedData # "throws"
    /\ \/ ext.http.kind \in {"none", "network"}
       \/ ext.http.status = 200 /\ ext.http.data \in CalmBodies
       \/ ext.http.status = 500 /\ ext.http.data = Str("")

ConcurrentNext ==
    \/ Switch
    \/ Delivered
    \/ executeN8nWorkflow /\ NarrowWorld'
    \/ ResolveConfig /\ NarrowWorld'
    \/ ResolveRequest /\ NarrowWorld'
    \/ ResolveAxios /\ NarrowWorld'

Concurrent == ConcurrentInit /\ [][ConcurrentNext]_vars

----------------------------------------------------------------------------
(* Properties *)

\* the operations that refuse to run without a user identifier
UserIdOperations ==
    {"listN8nWorkflows", "getN8nWorkflow", "createN8nWorkflow", "updateN8nWorkflow",
     "deleteN8nWorkflow", "activateN8nWorkflow", "deactivateN8nWorkflow",
     "listN8nExecutions", "getN8nExecution", "executeN8nWorkflow",
     "listN8nCredentials", "getN8nCredential", "getN8nUserInfo", "listN8nWebhooks",
     "listN8nTags", "createN8nTag"}

\* the operations that have a user identifier among their parameters
TakesUserId == UserIdOperations \cup {"validateN8nWorkflow"}

MissingUserIds == {Null, Undefined, Str("")}

UserIdRequiredText ==
    Text("Error: User ID is required. Please provide user authentication.", <<>>)

ApiKeyNotFoundText ==
    Text("Error: n8n API key not found. Please configure your n8n integration in your profile settings.", <<>>)

\* the credential resolver answered absent, or a record with an empty key
ConfigAbsent == lookups > 0 /\ (config = Null \/ Get(config, "apiKey") = Str(""))

\* C1 as stated: every operation that takes a user identifier, called
\* without one, returns the user-id message and makes no credential lookup
\* and no HTTP call
C1_EveryOperation ==
    (op \in TakesUserId /\ args.userId \in MissingUserIds /\ pc # "idle")
        => /\ pc = "done"
           /\ result = UserIdRequiredText
           /\ lookups = 0
           /\ calls = <<>>

\* C1 amended: every operation that requires a user identifier (all but
\* validateN8nWorkflow, where it is optional), called with a null,
\* undefined or empty one, returns the user-id message and makes no
\* credential lookup and no HTTP call
C1_RequiredUserId ==
    (op \in UserIdOperations /\ args.userId \in MissingUserIds /\ pc # "idle")
        => /\ pc = "done"
           /\ result = UserIdRequiredText
           /\ lookups = 0
           /\ calls = <<>>

C1_Witness ==
    /\ op = "executeN8nWorkflow"
    /\ args.userId = Str("")
    /\ pc = "done"
    /\ result = UserIdRequiredText

\* C2 as stated: every operation that takes a user identifier, once the
\* resolver has answered absent or an empty key, returns the API-key
\* message and issues no HTTP call
C2_EveryOperation ==
    (op \in TakesUserId /\ ConfigAbsent /\ pc # "config")
        => /\ pc = "done"
           /\ result = ApiKeyNotFoundText
           /\ calls = <<>>

\* C2 amended: every operation that requires a user identifier, once the
\* resolver has answered absent or an empty key, returns the API-key
\* message and issues no HTTP call, whatever its other arguments are
C2_RequiredUserId ==
    (op \in UserIdOperations /\ ConfigAbsent /\ pc # "config")
        => /\ pc = "done"
           /\ result = ApiKeyNotFoundText
           /\ calls = <<>>

C2_Witness ==
    /\ op = "createN8nWorkflow"
    /\ lookups = 1
    /\ config # Null
    /\ Get(config, "apiKey") = Str("")
    /\ pc = "done"
    /\ result = ApiKeyNotFoundText

\* the stored record of the caller holds mcpdata.N8N.api_key
StoredKey ==
    /\ args.userId.t = "string"
    /\ args.userId.v \in DOMAIN User
    /\ Get(Get(Get(User[args.userId.v], "mcpdata"), "N8N"), "api_key") \notin {Undefined, Null, Str("")}

\* C3: getN8nConfig never propagates an exception; it resolves to null
\* exactly when the record, its mcpdata, its N8N sub-record or its api_key
\* is missing or the store lookup or the decryption throws, and otherwise
\* to a record of apiKey and apiBaseUrl
C3_FailsClosed ==
    lookups > 0
        => /\ config # Throw
           /\ config = Null <=> ~(/\ StoredKey
                                  /\ ext.findById = "returned"
                                  /\ ext.decryptedData = "returned")
           /\ config # Null => (config.t = "object" /\ DOMAIN config.v = {"apiKey", "apiBaseUrl"})

C3_Witness ==
    /\ op = "getN8nConfig"
    /\ StoredKey
    /\ ext.decryptedData = "throws"
    /\ pc = "done"
    /\ result = Null

\* the HTTP call of makeN8nRequest failed: no response, or a status outside 2xx
HttpFailed == ext.http.kind # "response" \/ ext.http.status \notin 200..299

\* C4: makeN8nRequest never raises and resolves to null if and only if the
\* HTTP call failed
C4_NullIffFailure ==
    (ext.via = "makeN8nRequest" /\ awaiting = "none")
        => /\ data # Throw
           /\ data = Null <=> HttpFailed

\* C5: no operation ends by throwing
C5_NeverThrows == pc # "thrown"

\* what follows "Error:" in the texts the operations return
ErrorTails ==
    {" At least one node is required. Provide an array of workflow nodes.",
     " Failed to retrieve workflow ${workflowId}. Please check if the workflow ID is correct.",
     " Invalid node structure. Each node must have: type, name, and position [x, y] (with numeric values). Found ${invalidNodes.length} invalid node(s).",
     " Node configuration is required and must be an object.",
     " Node type is required.",
     " User ID is required. Please provide user authentication.",
     " Workflow \"${name}\" form trigger is missing a form ID/path. Please check the form trigger configuration in n8n.",
     " Workflow \"${name}\" has a form trigger but the trigger node configuration could not be found. Please check the workflow configuration in n8n.",
     " Workflow \"${name}\" has an unsupported trigger type (${trigger.type}). Supported triggers: webhook, form, schedule, chat, manual.",
     " Workflow \"${name}\" is active but not published. Form workflows must be published to accept form submissions. Please publish the workflow in n8n.",
     " Workflow \"${name}\" is not active. Please activate the workflow first using the activate_n8n_workflow tool.",
     " Workflow configuration is required and must be an object.",
     " Workflow execution returned status ${runResponse.status}. Response: ${...}",
     " Workflow name is required and must be a non-empty string.",
     " n8n API key not found. Please configure your n8n integration in your profile settings."}

\* what follows "Failed to " in the texts the operations return
FailedTails ==
    {"activate workflow: ${workflowId}",
     "create tag: ${name}",
     "create workflow: ${name}. Please check the workflow structure and ensure all required fields are provided.",
     "deactivate workflow: ${workflowId}",
     "delete workflow: ${workflowId}",
     "execute workflow: ${workflowId}. Please ensure the workflow is active and has a valid version.",
     "get credential: ${credentialId}",
     "get credentials",
     "get execution: ${executionId}",
     "get executions",
     "get tags",
     "get user info",
     "get webhooks",
     "get workflow: ${workflowId}",
     "get workflows",
     "update workflow: ${workflowId}"}

\* the text begins with "Error:" or with "Failed to "
HasErrorPrefix(text) ==
    /\ text.t = "string"
    /\ \/ \E tail \in ErrorTails : text.v = "Error:" \o tail
       \/ \E tail \in FailedTails : text.v = "Failed to " \o tail

\* executeN8nWorkflow has fetched a workflow
Fetched ==
    /\ op = "executeN8nWorkflow"
    /\ pc \notin {"idle", "config", "request"}
    /\ "workflowData" \in DOMAIN local

KnownTriggerTypes ==
    {Str("n8n-nodes-base.webhook"), Str("n8n-nodes-base.formTrigger"),
     Str("n8n-nodes-base.scheduleTrigger"), Str("n8n-nodes-base.chatTrigger"),
     Str("n8n-nodes-base.manualTrigger")}

\* the fetched workflow holds no node of a known trigger type
NoKnownTrigger ==
    LET nodes == Get(local.workflowData, "nodes")
    IN  ~IsArray(nodes) \/ \A i \in 1..Len(nodes.v) : Get(nodes.v[i], "type") \notin KnownTriggerTypes

\* the first node of a known trigger type is a webhook that declares no path
WebhookWithoutPath ==
    LET nodes == Get(local.workflowData, "nodes")
    IN  /\ IsArray(nodes)
        /\ \E i \in 1..Len(nodes.v) :
             /\ Get(nodes.v[i], "type") = Str("n8n-nodes-base.webhook")
             /\ \A j \in 1..(i - 1) : Get(nodes.v[j], "type") \notin KnownTriggerTypes
             /\ LET parameters == Get(nodes.v[i], "parameters")
                IN  /\ ~Truthy(Get(parameters, "path"))
                    /\ ~Truthy(Get(parameters, "pathPrefix"))
                    /\ ~Truthy(Get(Get(parameters, "options"), "path"))

\* the operation is in one of the error cases: configuration error,
\* precondition error, failure of its last HTTP call with nothing local to
\* fall back on, unsupported trigger
ErrorCase ==
    \/ op \in UserIdOperations /\ args.userId \in MissingUserIds
    \/ op \in UserIdOperations /\ ConfigAbsent
    \/ op \in UserIdOperations /\ ext.via # "none" /\ HttpFailed
    \/ op \in {"searchN8nTemplates", "getN8nTemplate"} /\ ext.via = "axios" /\ HttpFailed
    \/ op = "getN8nNode" /\ ext.via = "axios" /\ HttpFailed /\ args.arg.v \notin nodeInfo
    \/ Fetched /\ Get(local.workflowData, "active") # Bool(TRUE)
    \/ Fetched /\ Get(local.workflowData, "active") = Bool(TRUE) /\ NoKnownTrigger

\* C6: every text returned in an error case begins with "Error:" or with
\* "Failed to "
C6_ErrorPrefix == (pc = "done" /\ ErrorCase) => HasErrorPrefix(result)

NotActiveText ==
    Text("Error: Workflow \"${name}\" is not active. Please activate the workflow first using the activate_n8n_workflow tool.", <<>>)

\* C7: when the fetched workflow is not active (active false or absent),
\* executeN8nWorkflow returns the not-active error and issues no HTTP call
\* after the fetch, whatever the trigger and the input are
C7_InactiveRefused ==
    (Fetched /\ Get(local.workflowData, "active") # Bool(TRUE))
        => /\ pc = "done"
           /\ result = NotActiveText
           /\ Len(calls) = 1

C7_Witness ==
    /\ Fetched
    /\ Get(local.workflowData, "active") = Undefined
    /\ ~NoKnownTrigger
    /\ args.inputData # Null
    /\ pc = "done"
    /\ result = NotActiveText

UnsupportedText(type) ==
    Text("Error: Workflow \"${name}\" has an unsupported trigger type (${trigger.type}). Supported triggers: webhook, form, schedule, chat, manual.", <<type>>)

\* C8: when the fetched workflow is active and holds no node of a known
\* trigger type, or its trigger is a webhook without a path,
\* executeN8nWorkflow returns the unsupported-trigger error naming the
\* type and issues no HTTP call after the fetch
C8_UnsupportedRefused ==
    (Fetched /\ Get(local.workflowData, "active") = Bool(TRUE))
        => /\ NoKnownTrigger
              => (pc = "done" /\ result = UnsupportedText("unknown") /\ Len(calls) = 1)
           /\ WebhookWithoutPath
              => (pc = "done" /\ result = UnsupportedText("webhook") /\ Len(calls) = 1)

\* the calls after the workflow fetch
Attempts == IF calls = <<>> THEN <<>> ELSE Tail(calls)

\* C9: in every invocation of executeN8nWorkflow at most two trigger
\* attempts follow the workflow fetch, and no two of them address the same
\* endpoint with the same method
C9_AtMostTwoAttempts ==
    op = "executeN8nWorkflow"
        => /\ Len(Attempts) <= 2
           /\ \A i, j \in 1..Len(Attempts) :
                (i # j) => <<Attempts[i].url, Attempts[i].method>>
                           # <<Attempts[j].url, Attempts[j].method>>

C9_Witness ==
    /\ op = "executeN8nWorkflow"
    /\ pc = "done"
    /\ Len(Attempts) = 2
    /\ result.t = "string"

\* the caller's input if it is a list, the one-element list of it otherwise
Wrapped(inputData) == IF inputData.t = "array" THEN inputData ELSE Arr(<<inputData>>)

\* the fetched workflow is active and its trigger is a webhook with a path
WebhookWithPath ==
    /\ Fetched
    /\ Get(local.workflowData, "active") = Bool(TRUE)
    /\ "trigger" \in DOMAIN local
    /\ local.trigger.type = "webhook"
    /\ local.trigger.path \notin {Undefined, Null, Str("")}

\* what a call carries: the query of a GET, the body of every other method
Carried(call) == IF call.method = "GET" THEN call.params ELSE call.body

\* C10: for an active workflow with a webhook trigger and a path,
\* executeN8nWorkflow issues exactly one call, to {host}/webhook/{path},
\* with the method the trigger node declares, carrying the caller's input
\* (when there is one) as it is if it is a list and as the one-element
\* list of it otherwise
C10_WebhookCall ==
    WebhookWithPath
        => /\ Len(Attempts) = 1
           /\ Attempts[1].url[2] = "webhook"
           /\ Attempts[1].url[3] = local.trigger.path.v
           /\ Str(Attempts[1].method) = local.trigger.httpMethod
           /\ args.inputData # Null => Carried(Attempts[1]) = Wrapped(args.inputData)

\* executeN8nWorkflow has detected the trigger of an active workflow
Detected(type) ==
    /\ Fetched
    /\ Get(local.workflowData, "active") = Bool(TRUE)
    /\ "trigger" \in DOMAIN local
    /\ local.trigger.type = type

\* the fetched workflow is published
Published == Get(local.workflowData, "activeVersionId") \notin {Undefined, Null, Str("")}

\* a form identifier was found for the trigger
HasFormId == local.trigger.path \notin {Undefined, Null, Str("")}

NotPublishedText ==
    Text("Error: Workflow \"${name}\" is active but not published. Form workflows must be published to accept form submissions. Please publish the workflow in n8n.", <<>>)

MissingFormIdText ==
    Text("Error: Workflow \"${name}\" form trigger is missing a form ID/path. Please check the form trigger configuration in n8n.", <<>>)

\* C11: for an active workflow with a form trigger, a call follows the
\* workflow fetch only if the workflow is published, the trigger node is
\* resolved and a form identifier was found; when the publication or the
\* identifier is missing the error naming it is returned and no call follows
\* the fetch
C11_FormPreconditions ==
    Detected("form")
        => /\ Attempts # <<>> => (Published /\ local.trigger.node # Null /\ HasFormId)
           /\ ~Published => (pc = "done" /\ result = NotPublishedText /\ Attempts = <<>>)
           /\ (Published /\ ~HasFormId)
                => (pc = "done" /\ result = MissingFormIdText /\ Attempts = <<>>)

C11_Witness ==
    /\ Detected("form")
    /\ ~Published
    /\ HasFormId
    /\ pc = "done"
    /\ result = NotPublishedText

\* an HTTP outcome that is a failure: no response, or a status outside 2xx
Failed(o) == o.kind # "response" \/ o.status \notin 200..299

\* C12: in the form dispatch the multipart submission is issued only after
\* the run-endpoint attempt has failed; after a 2xx answer of the run
\* endpoint no form submission is made
C12_SubmissionOnlyAfterFailure ==
    (op = "executeN8nWorkflow" /\ pc = "formSubmit" /\ awaiting = "axios")
        => Failed(response)

\* the run endpoint has been answered in the schedule, chat and manual dispatch
RunAnsweredState ==
    /\ \/ Detected("schedule")
       \/ Detected("chat")
       \/ Detected("manual")
    /\ pc \in {"execute", "done"}

StartedText(via) == Text("**Workflow Execution Started:**", <<via>>)

\* C13: for a schedule, chat or manual trigger the run endpoint is called
\* first; the execute endpoint is called if and only if that attempt
\* failed, with a body of the active version id (when set) and the caller's
\* input only; success is reported whenever either attempt succeeded
C13_RunThenExecute ==
    RunAnsweredState
        => /\ Attempts[1].url[Len(Attempts[1].url)] = "run"
           /\ Len(Attempts) = 2 <=> Failed(response)
           /\ Len(Attempts) = 2
                => LET body == Attempts[2].body
                       versionId == Get(local.workflowData, "activeVersionId")
                   IN  /\ Attempts[2].url[Len(Attempts[2].url)] = "execute"
                       /\ DOMAIN body.v \subseteq {"versionId", "data"}
                       /\ Get(body, "versionId") = versionId
                       /\ Get(body, "data") = IF args.inputData = Null THEN Undefined
                                              ELSE Wrapped(args.inputData)
           /\ (pc = "done" /\ ~Failed(response)) => result = StartedText("run")
           /\ (pc = "done" /\ Failed(response) /\ ~Failed(ext.http))
                => result = StartedText("execute")

\* the short name of a known trigger type
TriggerName(type) ==
    CHOOSE k \in DOMAIN triggerNodeTypes : Str(triggerNodeTypes[k]) = type

\* C14: the detected trigger is that of the first node, in list order, of
\* one of the five known trigger types, whatever known-type nodes follow
\* it; the detected type is 'unknown' if and only if the node list is
\* missing, not a list, or holds no node of a known trigger type
C14_FirstKnownTrigger ==
    (Fetched /\ Get(local.workflowData, "active") = Bool(TRUE))
        => LET nodes == Get(local.workflowData, "nodes")
           IN  /\ "trigger" \in DOMAIN local
               /\ local.trigger.type = "unknown" <=> NoKnownTrigger
               /\ ~NoKnownTrigger
                    => \E i \in 1..Len(nodes.v) :
                         /\ Get(nodes.v[i], "type") \in KnownTriggerTypes
                         /\ \A j \in 1..(i - 1) : Get(nodes.v[j], "type") \notin KnownTriggerTypes
                         /\ local.trigger.type = TriggerName(Get(nodes.v[i], "type"))
                         /\ local.trigger.type # "form" => local.trigger.node = nodes.v[i]

\* a value that is set and not the empty string
NonEmpty(x) == x \notin {Undefined, Null, Str("")}

\* detectWorkflowTrigger has returned for a workflow whose only node is a webhook
WebhookDetected ==
    /\ op = "detectWorkflowTrigger"
    /\ pc = "done"
    /\ Get(Get(args.workflowData, "nodes").v[1], "type") = Str("n8n-nodes-base.webhook")

\* C15: for a webhook trigger node the detected path is the first non-empty
\* value among parameters.path, parameters.pathPrefix and
\* parameters.options.path, in that order, and the detected method is
\* 'POST' whenever the node declares none; parameters.path = "abc" with no
\* method gives type webhook, path "abc", method POST
C15_WebhookPathAndMethod ==
    WebhookDetected
        => LET parameters == Get(Get(args.workflowData, "nodes").v[1], "parameters")
               places == <<Get(parameters, "path"), Get(parameters, "pathPrefix"),
                           Get(Get(parameters, "options"), "path")>>
           IN  /\ result.type = "webhook"
               /\ \A i \in 1..3 :
                    (NonEmpty(places[i]) /\ \A j \in 1..(i - 1) : ~NonEmpty(places[j]))
                        => result.path = places[i]
               /\ (~NonEmpty(Get(parameters, "httpMethod"))
                     /\ ~NonEmpty(Get(Get(parameters, "options"), "httpMethod")))
                    => result.httpMethod = Str("POST")
               /\ parameters = Obj([path |-> Str("abc")])
                    => (result.path = Str("abc") /\ result.httpMethod = Str("POST"))

\* the path was found in the third place and no method was declared
C15_Witness ==
    /\ WebhookDetected
    /\ LET parameters == Get(Get(args.workflowData, "nodes").v[1], "parameters")
       IN  /\ Get(parameters, "path") = Undefined
           /\ Get(parameters, "pathPrefix") = Str("")
           /\ Get(parameters, "options") = Obj([path |-> Str("opt")])
           /\ Get(parameters, "httpMethod") = Undefined
    /\ result.path = Str("opt")
    /\ result.httpMethod = Str("POST")

\* the number of fields a form trigger node declares: the entries of its
\* structured list, else of its plain list, else its schema properties
DeclaredFields(node) ==
    LET parameters == Get(node, "parameters")
        values == Get(Get(parameters, "formFields"), "values")
        fields == Get(parameters, "fields")
        properties == Get(Get(parameters, "schema"), "properties")
    IN  IF IsArray(values) /\ values.v # <<>> THEN Len(values.v)
        ELSE IF IsArray(fields) /\ fields.v # <<>> THEN Len(fields.v)
        ELSE IF properties.t = "object" THEN Cardinality(DOMAIN properties.v)
        ELSE 0

\* C16: for a form trigger node that declares n >= 1 fields,
\* generateDefaultFormData without caller input returns a mapping whose
\* keys are exactly field-0 .. field-(n-1), each with a non-null value,
\* for every combination of field type, label, placeholder, options and
\* default
C16_PositionalNonNull ==
    (/\ op = "generateDefaultFormData" /\ pc \in {"done", "thrown"}
     /\ DeclaredFields(args.formTriggerNode) >= 1)
        => /\ pc = "done"
           /\ result.t = "object"
           /\ DOMAIN result.v
                = {"field-" \o ToString(i) : i \in 0..(DeclaredFields(args.formTriggerNode) - 1)}
           /\ \A k \in DOMAIN result.v : ~Nullish(result.v[k])

\* the caller supplied a value for the key that is not null, not undefined
\* and not the empty string
Supplied(inputData, k) ==
    /\ inputData.t \in {"object", "array"}
    /\ k \in Keys(inputData)
    /\ At(inputData, k) \notin {Null, Undefined, Str("")}

\* C17: in the merge of the form dispatch the value of every key is the
\* caller's when the caller supplied one that is not null, not undefined
\* and not the empty string, and the synthesized default otherwise; every
\* key of the defaults is present; {field-0: "", field-1: "x"} over two
\* defaults gives the default for field-0 and "x" for field-1
C17_CallerOverDefaults ==
    (op = "mergeFormData" /\ pc = "done")
        => /\ result.t = "object"
           /\ DOMAIN args.defaultFormData.v \subseteq DOMAIN result.v
           /\ \A k \in DOMAIN result.v :
                result.v[k] = IF Supplied(args.inputData, k)
                              THEN At(args.inputData, k)
                              ELSE Get(args.defaultFormData, k)
           /\ \A k \in Keys(args.inputData) :
                Supplied(args.inputData, k) => k \in DOMAIN result.v
           /\ \A k \in DOMAIN result.v : result.v[k] # Undefined

\* the caller passed {field-0: "", field-1: "x"} over the two defaults
C17_Witness ==
    /\ op = "mergeFormData"
    /\ pc = "done"
    /\ args.inputData = Obj([k \in {"field-0", "field-1"} |->
                                IF k = "field-0" THEN Str("") ELSE Str("x")])
    /\ DOMAIN args.defaultFormData.v = {"field-0", "field-1"}
    /\ result.v["field-0"] = args.defaultFormData.v["field-0"]
    /\ result.v["field-1"] = Str("x")

\* C18: the node normalizer of createN8nWorkflow is idempotent: for every
\* node that passes the structure check, normalizing the normalized node
\* again gives a node equal to the first normalization, field by field
C18_NormalizerIdempotent ==
    (op = "normalizeNode" /\ pc = "done" /\ local.passes = 2)
        => /\ DOMAIN result.v = DOMAIN local.first.v
           /\ \A f \in DOMAIN result.v : result.v[f] = local.first.v[f]

\* a node whose version, id, boolean and numeric fields were all coerced
\* has been normalized twice
C18_Witness ==
    /\ op = "normalizeNode"
    /\ pc = "done"
    /\ local.passes = 2
    /\ Get(args.node, "typeVersion") = Str("2")
    /\ Get(args.node, "id") = Num(1)
    /\ Get(args.node, "disabled") = Num(0)
    /\ Get(args.node, "maxTries") = Str("1")
    /\ result.v["typeVersion"] = Num(2)
    /\ result.v["id"] = Str("1")
    /\ result.v["disabled"] = Bool(FALSE)
    /\ result.v["maxTries"] = Num(1)

\* a node with a type, a name and a position of two numbers
WellFormedNode(node) ==
    /\ node.t = "object"
    /\ NonEmpty(Get(node, "type"))
    /\ NonEmpty(Get(node, "name"))
    /\ Get(node, "position").t = "array"
    /\ Len(Get(node, "position").v) = 2
    /\ \A i \in 1..2 : Get(node, "position").v[i].t \in {"number", "nan"}

\* the arguments createN8nWorkflow needs to submit: a name that is a
\* non-empty string and well-formed nodes
Creatable ==
    /\ args.name.t = "string" /\ args.name.v # ""
    /\ args.nodes.t = "array"
    /\ \A i \in 1..Len(args.nodes.v) : WellFormedNode(args.nodes.v[i])

\* C19: createN8nWorkflow issues the POST to 'workflows' only if the name
\* is a non-empty string and every node has a type, a name and a position
\* of two numbers; otherwise it returns an 'Error:' text and sends nothing;
\* every node of a submitted payload has type, name, a position of two
\* numbers and a typeVersion, which is 1 when the input node declared none
C19_CreateValidated ==
    (op = "createN8nWorkflow" /\ pc \notin {"idle", "config"})
        => /\ calls # <<>> => Creatable
           /\ ~Creatable
                => /\ pc = "done"
                   /\ result.t = "string"
                   /\ \E tail \in ErrorTails : result.v = "Error:" \o tail
                   /\ calls = <<>>
           /\ \A c \in 1..Len(calls) :
                /\ calls[c].method = "POST"
                /\ calls[c].url[Len(calls[c].url)] = "workflows"
                /\ LET sent == Get(calls[c].body, "nodes").v
                   IN  /\ Len(sent) = Len(args.nodes.v)
                       /\ \A i \in 1..Len(sent) :
                            /\ WellFormedNode(sent[i])
                            /\ Get(sent[i], "type").t = "string"
                            /\ Get(sent[i], "name").t = "string"
                            /\ Get(sent[i], "typeVersion").t = "number"
                            /\ Nullish(Get(args.nodes.v[i], "typeVersion"))
                                 => Get(sent[i], "typeVersion") = Num(1)

\* the base URL stored for a user
StoredBase(userId) ==
    Get(Get(Get(findById(userId), "mcpdata"), "N8N"), "api_base_url")

\* the addresses the calls made for a user start with: the base URL of the
\* user and its origin, or the defaults when the user has none
OwnAddresses(userId) ==
    IF Truthy(StoredBase(userId))
    THEN {StoredBase(userId).v, Origin(StoredBase(userId).v)}
    ELSE {DEFAULT_N8N_API_BASE, N8N_API_BASE_URL}

\* what a call shows of itself: the HTTP calls it issued are addressed to
\* the host of its own user with its own workflow id, the value it resumes
\* with is the answer to its own request, and the text it returns is that
\* of its own answers
OwnOnly(f) ==
    f.op = "executeN8nWorkflow"
        => /\ \A i \in 1..Len(f.calls) :
                /\ f.calls[i].url[1] \in OwnAddresses(f.args.userId)
                /\ \/ Seg(f.args.workflowId) \in {f.calls[i].url[j] : j \in 1..Len(f.calls[i].url)}
                   \/ "webhook" \in {f.calls[i].url[j] : j \in 1..Len(f.calls[i].url)}
           /\ f.calls # <<>> => Truthy(Get(Get(Get(findById(f.args.userId), "mcpdata"), "N8N"), "api_key"))
           /\ (f.pc \in {"request", "execute"} /\ f.awaiting = "none")
                => f.data = MakeN8nRequestResult(Last(f.calls).method, f.http)
           /\ (f.pc \in {"webhook", "run"} /\ f.awaiting = "none") => f.response = f.http
           /\ f.result = StartedText("run")
                => (f.response = f.http /\ f.response.status = 200)
           /\ f.result = NotActiveText => Get(f.local.workflowData, "active") # Bool(TRUE)

\* C20: two calls running concurrently for different users do not
\* interact: under every interleaving of their awaits, the HTTP calls each
\* issues and the text it returns are those of its own arguments and of the
\* answers to its own requests
C20_NoInteraction ==
    /\ OwnOnly(Frame)
    /\ OwnOnly(ext.parked)

\* the running call, made for one user, has returned after its run
\* endpoint answered while the call of the other user is suspended with
\* its own request in flight
C20_Witness ==
    /\ op = "executeN8nWorkflow"
    /\ pc = "done"
    /\ Len(calls) = 2
    /\ result = StartedText("run")
    /\ ext.parked.op = "executeN8nWorkflow"
    /\ ext.parked.args.userId # args.userId
    /\ ext.parked.awaiting = "axios"
    /\ Len(ext.parked.calls) = 2

\* the run endpoint has been called for a chat trigger
ChatRunCalled ==
    /\ Detected("chat")
    /\ Len(Attempts) >= 1
    /\ Attempts[1].url[Len(Attempts[1].url)] = "run"

\* the canned message of a chat run without input
DefaultChatMessage == Str("Workflow triggered via n8n MCP")

\* C21: for a chat trigger the data sent to the run endpoint is a
\* one-element list whose element has both a message and a chatInput field:
\* built from the caller's input when one is given, of any type, and equal
\* to the canned default message when no input is given
C21_ChatData ==
    ChatRunCalled
        => LET sent == Get(Attempts[1].body, "data")
           IN  /\ sent.t = "array"
               /\ Len(sent.v) = 1
               /\ sent.v[1].t = "object"
               /\ {"message", "chatInput"} \subseteq DOMAIN sent.v[1].v
               /\ args.inputData.t = "string" /\ args.inputData # Str("")
                    => sent.v[1] = Obj([message |-> args.inputData, chatInput |-> args.inputData])
               /\ args.inputData \in {Null, Undefined}
                    => sent.v[1] = Obj([message |-> DefaultChatMessage,
                                        chatInput |-> DefaultChatMessage])

\* the multipart form submission has been answered with an error status
\* and executeN8nWorkflow has returned
FormSubmissionRefused ==
    /\ Detected("form")
    /\ pc = "done"
    /\ calls # <<>>
    /\ Last(calls).url[2] = "form"
    /\ response.kind = "response"
    /\ response.status >= 400

\* C22: in the form dispatch every response of the multipart form
\* submission with status >= 400 makes executeN8nWorkflow return an error
\* text that states whether the workflow appears published, whatever the
\* error message returned by the server is
C22_RefusalStatesPublished ==
    FormSubmissionRefused
        => result = Text("Error triggering form workflow: ${errorMessage}",
                         <<"states published">>)

\* detectWorkflowTrigger has returned for a workflow whose only node is a
\* form trigger
FormDetected ==
    /\ op = "detectWorkflowTrigger"
    /\ pc = "done"
    /\ Get(Get(args.workflowData, "nodes").v[1], "type") = Str("n8n-nodes-base.formTrigger")

\* the seven places of the form identifier, in the order of the claim
FormIdPlaces ==
    LET wf == args.workflowData
        node == Get(wf, "nodes").v[1]
    IN  <<Opt(Get(node, "parameters"), "formId"),
          Opt(Get(node, "parameters"), "id"),
          Get(node, "webhookId"),
          Opt(Get(wf, "settings"), "formId"),
          Opt(Get(wf, "staticData"), "formId"),
          Get(wf, "webhookId"),
          Get(wf, "id")>>

\* C23: for a form trigger node the detected form identifier is the first
\* non-empty value in the order node parameters.formId, node parameters.id,
\* node webhookId, workflow settings.formId, workflow staticData.formId,
\* workflow webhookId, workflow id; a later place is used only when every
\* earlier one is empty, and the identifier is empty only if all of them are
C23_FormIdOrder ==
    FormDetected
        => /\ result.type = "form"
           /\ \A i \in 1..7 :
                (NonEmpty(FormIdPlaces[i]) /\ \A j \in 1..(i - 1) : ~NonEmpty(FormIdPlaces[j]))
                    => result.path = FormIdPlaces[i]
           /\ ~NonEmpty(result.path) => \A i \in 1..7 : ~NonEmpty(FormIdPlaces[i])

C23_Witness ==
    /\ FormDetected
    /\ ~NonEmpty(FormIdPlaces[1])
    /\ ~NonEmpty(FormIdPlaces[2])
    /\ FormIdPlaces[3] = Str("n-webhookId")
    /\ FormIdPlaces[6] = Str("w-webhookId")
    /\ result.path = Str("n-webhookId")

\* extractFormFields has returned
FieldsExtracted == op = "extractFormFields" /\ pc = "done"

\* a source of field declarations that is a list with at least one field
Declares(source) == source.t = "array" /\ source.v # <<>>

\* C24: extractFormFields takes the field declarations from the first
\* non-empty source in the order structured field list, flat
\* parameters.fields, nested parameters.options.fields, JSON-schema
\* properties; a node that declares its fields only as JSON-schema
\* properties yields one field per property
C24_FieldSources ==
    FieldsExtracted
        => LET parameters == Get(args.formTriggerNode, "parameters")
               values == Get(Get(parameters, "formFields"), "values")
               fields == Get(parameters, "fields")
               nested == Get(Get(parameters, "options"), "fields")
               properties == Get(Get(parameters, "schema"), "properties")
           IN  IF Declares(values)
               THEN /\ Len(result.v) = Len(values.v)
                    /\ \A i \in 1..Len(values.v) :
                         Get(result.v[i], "fieldLabel") = Get(values.v[i], "fieldLabel")
               ELSE IF Declares(fields) THEN result = fields
               ELSE IF Declares(nested) THEN result = nested
               ELSE IF properties.t = "object"
               THEN /\ Len(result.v) = Cardinality(DOMAIN properties.v)
                    /\ {Get(result.v[i], "fieldLabel") : i \in 1..Len(result.v)}
                         = {Str(k) : k \in DOMAIN properties.v}
               ELSE result = Arr(<<>>)

\* the node declares its fields as JSON-schema properties only
OnlyProperties ==
    LET parameters == Get(args.formTriggerNode, "parameters")
    IN  /\ FieldsExtracted
        /\ Get(parameters, "formFields") = Undefined
        /\ Get(parameters, "fields") = Undefined
        /\ Get(parameters, "options") = Undefined
        /\ Get(parameters, "schema") # Undefined

\* generateDefaultFormData has returned for a node whose flat field list
\* holds exactly one field, of type number or integer, without a default
NumberFieldSynthesized ==
    LET fields == Get(Get(args.formTriggerNode, "parameters"), "fields")
    IN  /\ op = "generateDefaultFormData"
        /\ pc = "done"
        /\ fields.t = "array"
        /\ Len(fields.v) = 1
        /\ Get(fields.v[1], "type") \in {Str("number"), Str("integer")}
        /\ Nullish(Get(fields.v[1], "default"))
        /\ Nullish(Get(fields.v[1], "defaultValue"))

\* C25: a field of type number or integer with no explicit default is
\* given its declared minimum whenever a minimum is declared, for every
\* integer minimum, 0 and negative values included, and is given 1 only
\* when no minimum is declared
C25_NumberMinimum ==
    NumberFieldSynthesized
        => LET min == Get(Get(Get(args.formTriggerNode, "parameters"), "fields").v[1], "min")
           IN  /\ min.t = "number" => Get(result, "field-0") = min
               /\ Nullish(min) => Get(result, "field-0") = Num(1)

\* the operations that take a required identifier, and the argument that
\* holds it
RequiredArgument ==
    [getN8nWorkflow |-> "workflowId", updateN8nWorkflow |-> "workflowId",
     deleteN8nWorkflow |-> "workflowId", activateN8nWorkflow |-> "workflowId",
     deactivateN8nWorkflow |-> "workflowId", getN8nExecution |-> "executionId",
     getN8nCredential |-> "credentialId", createN8nTag |-> "name"]

\* C26: each of get/update/delete/activate/deactivate-workflow,
\* get-execution, get-credential and create-tag checks that its required
\* argument is present before any network call: when the argument is
\* missing the operation issues no Request-Executor call, and when it is
\* present and credentials resolve the operation issues exactly one
C26_RequiredArgumentChecked ==
    (op \in DOMAIN RequiredArgument /\ pc \in {"request", "done", "thrown"})
        => LET argument == args[RequiredArgument[op]]
           IN  /\ ~NonEmpty(argument) => calls = <<>>
               /\ (NonEmpty(argument) /\ ~UserIdMissing(args.userId) /\ ~ConfigMissing(config))
                    => Len(calls) = 1

\* validateN8nNode has returned
NodeValidated == op = "validateN8nNode" /\ pc \in {"done", "thrown"}

\* the node type contains 'webhook' and the configuration declares no
\* parameters.httpMethod
WebhookWithoutMethod ==
    /\ args.nodeType.t = "string"
    /\ args.nodeType.v \in {"webhook", "n8n-nodes-base.webhook"}
    /\ Nullish(Opt(Opt(args.config, "parameters"), "httpMethod"))

\* C27: validateN8nNode performs no HTTP call and no credential lookup for
\* any input; for every node type containing 'webhook' whose configuration
\* declares no parameters.httpMethod the report contains an error, and the
\* report says 'Validation Passed' if and only if both the error list and
\* the warning list are empty
C27_NodeValidation ==
    NodeValidated
        => /\ calls = <<>>
           /\ lookups = 0
           /\ WebhookWithoutMethod
                => IF "errors" \in DOMAIN result
                   THEN result.errors # {}
                   ELSE result.v = "Error: Node configuration is required and must be an object."
           /\ "passed" \in DOMAIN result
                => (result.passed <=> (result.errors = {} /\ result.warnings = {}))

C27_Witness ==
    /\ NodeValidated
    /\ WebhookWithoutMethod
    /\ "passed" \in DOMAIN result
    /\ ~result.passed
    /\ result.errors # {}
    /\ result.warnings = {}

\* an operation built on the Request Executor has returned its
\* 'Failed to ...' text
ReportedFailure ==
    /\ pc = "done"
    /\ result.t = "string"
    /\ \E tail \in FailedTails : result.v = "Failed to " \o tail

\* C28: an operation built on the Request Executor returns its
\* 'Failed to ...' text only if the executor call actually failed: a
\* successful remote response is never reported as a failure, a successful
\* response whose body is empty or otherwise falsy included
C28_FailureOnlyOnFailure ==
    ReportedFailure => (calls # <<>> /\ AxiosRejects(ext.http))

\* the call carries an API key
CarriesKey(call) == ~Nullish(call.apiKey)

\* the API base the user's calls are addressed to, and its host; a user
\* without a stored base URL is served by the defaults of the deployment,
\* DEFAULT_N8N_API_BASE and the host N8N.API_BASE_URL of ../config/config
OwnApiBase(userId) ==
    IF Truthy(StoredBase(userId)) THEN StoredBase(userId).v ELSE DEFAULT_N8N_API_BASE

OwnHost(userId) ==
    IF Truthy(StoredBase(userId)) THEN Origin(StoredBase(userId).v) ELSE N8N_API_BASE_URL

\* the operations on the public node and template catalog
CatalogOperations == {"searchN8nNodes", "getN8nNode", "searchN8nTemplates", "getN8nTemplate"}

OwnFormNode ==
    LET nodes == Get(local.workflowData, "nodes").v
        i == CHOOSE k \in 1..Len(nodes) :
                 /\ Get(nodes[k], "type") = Str("n8n-nodes-base.formTrigger")
                 /\ \A j \in 1..(k - 1) : Get(nodes[j], "type") # Str("n8n-nodes-base.formTrigger")
    IN  nodes[i]

\* the form data has been sent for a workflow whose own form trigger node
\* declares a non-empty structured field list
StructuredFormSent ==
    /\ Detected("form")
    /\ Attempts # <<>>
    /\ Declares(Get(Get(Get(OwnFormNode, "parameters"), "formFields"), "values"))

\* C30: when the workflow's own form trigger node declares a non-empty
\* structured field list, the defaults synthesized for the form submission
\* are derived from that node's list, one positional key per field of it,
\* whether or not the fetched workflow also carries an activeVersion
\* containing a form trigger node with a different field list
C30_DefaultsFromOwnNode ==
    StructuredFormSent
        => LET values == Get(Get(Get(OwnFormNode, "parameters"), "formFields"), "values")
               sent == Get(Attempts[1].body, "data").v[1]
               positional == {"field-" \o ToString(i - 1) : i \in 1..Len(values.v)}
           IN  /\ positional \subseteq DOMAIN sent.v
               /\ args.inputData = Null => DOMAIN sent.v = positional

====
